---- MODULE Spec2Model ----
(***************************************************************************)
(* Model of open_claude_agent.  The persistent bash session                *)
(* (tools/bash_tool.py): BashSession, its reader threads and the shell     *)
(* process behind it, and BashToolHandler.handle on top of it (Spec;      *)
(* SpecSpawnFault where subprocess.Popen may fail; SpecSentinel with       *)
(* commands that print the sentinel's text; SpecFair where the threads     *)
(* and the shells keep running); the handler's sanitize_output and         *)
(* truncate_output applied to texts of their own (SpecPolicy); the text    *)
(* editor tool with its backups (SpecEditor, and SpecEditorShared where    *)
(* others remove backup files); the memory tool (SpecMemory); the turn     *)
(* loops of ClaudeAgent and ClaudeHarness (SpecAgent); and the skill       *)
(* loader (SpecSkills).  Each component has one record variable and a      *)
(* specification of its own.                                               *)
(*                                                                         *)
(* A line of text is a sequence of tokens (strings); a text is the         *)
(* sequence of the pieces that str.split('\n') yields, so the empty text   *)
(* is << <<>> >> and a text made of newline-terminated lines ends in an    *)
(* empty piece.                                                            *)
(***************************************************************************)
EXTENDS Integers, Sequences, FiniteSets, TLC

\* ------------------------------------------------------------------ bounds
MaxCalls == 2        \* handle() calls issued on the handler
MaxExits == 1        \* times the shell process dies on its own
MaxSpawnFaults == 1  \* times subprocess.Popen may fail (SpecSpawnFault only)
MaxLines == 4        \* lines of a text handed to truncate_output (SpecPolicy only)
MaxLimit == 2        \* largest max_output_lines of a handler (SpecPolicy only)
MaxOps == 2          \* policy functions applied to one text (SpecPolicy only)
MaxEdits == 3        \* calls of the text editor handler (SpecEditor only)
MaxTurns == 3        \* largest max_turns of a conversation loop (SpecAgent only)
MaxItems == 2        \* entries of the skills directory (SpecSkills only)
MaxMemoryOps == 2    \* calls of the memory tool handler (SpecMemory only)

\* ------------------------------------------------------- program constants
timeout == 30
max_output_lines == 1000
END_MARKER == "___END_OF_COMMAND___"
EXIT_PREFIX == "EXIT_CODE:"

\* ------------------------------------------------------------- text helpers
EmptyText == << <<>> >>

\* "".join(output_lines): every line read ends in "\n", so the pieces of the
\* joined text are the lines followed by one empty piece.
JoinLines(ls) == ls \o << <<>> >>

RECURSIVE RStrip(_)
\* str.rstrip() on the pieces: trailing newlines (empty pieces) go away.
RStrip(t) ==
    IF Len(t) > 1 /\ t[Len(t)] = <<>> THEN RStrip(SubSeq(t, 1, Len(t) - 1)) ELSE t

\* truthiness of a Python string
NonEmptyText(t) == t # EmptyText

\* int(s.strip()): defined on the decimal literals the model uses
IntLiterals == {"-1", "0", "1", "2", "7"}
ParseInt(s) ==
    CASE s = "-1" -> -1 [] s = "0" -> 0 [] s = "1" -> 1 [] s = "2" -> 2 [] s = "7" -> 7
ToStr(n) ==
    CASE n = -1 -> "-1" [] n = 0 -> "0" [] n = 1 -> "1" [] n = 2 -> "2" [] n = 3 -> "3"
      [] n = 4 -> "4" [] n = 5 -> "5" [] n = 6 -> "6" [] n = 7 -> "7" [] n = 8 -> "8"
      [] n = 9 -> "9" [] n = 10 -> "10" [] n = 11 -> "11" [] n = 12 -> "12"
      [] n = 30 -> "30" [] n = 1000 -> "1000" [] OTHER -> "n"

StartsWithExitPrefix(line) == Len(line) >= 1 /\ line[1] = EXIT_PREFIX
\* int(line.split(":", 1)[1].strip()) succeeds
ExitCodeParses(line) == Len(line) = 2 /\ line[2] \in IntLiterals
ContainsEndMarker(line) == \E i \in 1..Len(line) : line[i] = END_MARKER

RemoveAt(s, i) == SubSeq(s, 1, i - 1) \o SubSeq(s, i + 1, Len(s))

\* ------------------------------------------------------ the Command Policy
\* A command is the sequence of its words.  A pattern of DANGEROUS_PATTERNS
\* is a sequence of segments: the words of a segment must occur next to each
\* other (\s+ between them), and ".*" separates two segments.
\* matching without re.IGNORECASE
LowerIdentity(w) == w

Lower(w) ==
    CASE w = "RM" -> "rm" [] w = "-RF" -> "-rf"
      [] w = "PASSWORD" -> "password" [] w = "API_KEY" -> "api_key"
      [] OTHER -> w

DANGEROUS_PATTERNS == <<
    << <<"rm", "-rf", "/">> >>,
    << <<":(){", ":|:&", "};:">> >>,
    << <<"mkfs.">> >>,
    << <<"dd", "if=/dev/zero">> >>,
    << <<"wget">>, <<"|", "sh">> >>,
    << <<"curl">>, <<"|", "sh">> >> >>

SegmentAt(seg, cmd, i) ==
    /\ i + Len(seg) - 1 <= Len(cmd)
    /\ \A j \in 1..Len(seg) : Lower(cmd[i + j - 1]) = seg[j]

RECURSIVE SearchFrom(_, _, _)
\* re.search of the remaining segments of a pattern at or after word i
SearchFrom(pat, cmd, i) ==
    IF pat = <<>> THEN TRUE
    ELSE \E k \in i..Len(cmd) :
            /\ SegmentAt(Head(pat), cmd, k)
            /\ SearchFrom(Tail(pat), cmd, k + Len(Head(pat)))

BlockedBy(command) ==
    {n \in 1..Len(DANGEROUS_PATTERNS) : SearchFrom(DANGEROUS_PATTERNS[n], command, 1)}

Min(S) == CHOOSE x \in S : \A y \in S : x <= y

\* validate_command: <<is_valid, error_msg>>; the first matching pattern wins
validate_command(command) ==
    IF BlockedBy(command) = {} THEN <<TRUE, EmptyText>>
    ELSE <<FALSE, << <<"Blocked dangerous command pattern:", ToStr(Min(BlockedBy(command)))>> >> >>

\* ---------------------------------------------------------- sanitize_output
\* For the SENSITIVE_PATTERNS a line is the sequence of its symbols: words,
\* separators, blanks and quotes, written next to each other.  The keywords
\* (password, api_key, ...) stand apart from the words around them.
NL == "\n"
LongRun == "abcdefghij0123456789ab"
REDACTED_TOKEN == "[REDACTED_TOKEN]"
REDACTED_PASSWORD == "password=[REDACTED]"
REDACTED_API_KEY == "api_key=[REDACTED]"

\* number of characters of a symbol that is a run of [A-Za-z0-9], else 0
AlnumLen(w) ==
    CASE w = LongRun -> 22
      [] w = "w12characters" -> 13
      [] w \in {"password", "PASSWORD"} -> 8
      [] w \in {"hunter2", "correct"} -> 7
      [] w = "horse" -> 5
      [] w = "late" -> 4
      [] w = "30" -> 2
      [] w \in {"a", "0", "1", "2", "7"} -> 1
      [] OTHER -> 0

IsSpace(w) == w \in {" ", NL}
IsQuote(w) == w \in {"\"", "'"}

RECURSIVE Flatten(_)
\* the text as one string: its lines with "\n" between them
Flatten(text) ==
    IF Len(text) = 1 THEN text[1] ELSE text[1] \o <<NL>> \o Flatten(Tail(text))

RECURSIVE Unflatten(_, _)
\* str.split('\n') of the string s, piece being the piece under construction
Unflatten(s, piece) ==
    IF s = <<>> THEN <<piece>>
    ELSE IF Head(s) = NL THEN <<piece>> \o Unflatten(Tail(s), <<>>)
    ELSE Unflatten(Tail(s), Append(piece, Head(s)))

RECURSIVE RunEnd(_, _)
\* last index of the run of alphanumerics that starts at i
RunEnd(s, i) == IF i < Len(s) /\ AlnumLen(s[i + 1]) > 0 THEN RunEnd(s, i + 1) ELSE i

RECURSIVE RunLen(_, _, _)
RunLen(s, i, j) == IF i > j THEN 0 ELSE AlnumLen(s[i]) + RunLen(s, i + 1, j)

RECURSIVE SubToken(_, _)
\* re.sub(r'[A-Za-z0-9]{20,}', '[REDACTED_TOKEN]', s) from index i on
SubToken(s, i) ==
    IF i > Len(s) THEN <<>>
    ELSE IF AlnumLen(s[i]) = 0 THEN <<s[i]>> \o SubToken(s, i + 1)
    ELSE LET j == RunEnd(s, i)
         IN  (IF RunLen(s, i, j) >= 20 THEN <<REDACTED_TOKEN>> ELSE SubSeq(s, i, j))
                \o SubToken(s, j + 1)

RECURSIVE SkipSpace(_, _)
\* \s*: the first index at or after i that holds no blank
SkipSpace(s, i) == IF i <= Len(s) /\ IsSpace(s[i]) THEN SkipSpace(s, i + 1) ELSE i

IsValueSym(s, i) == i <= Len(s) /\ ~IsSpace(s[i]) /\ ~IsQuote(s[i])

RECURSIVE ValueEnd(_, _)
\* [^"'\s]+ : last index of the run of value symbols that starts at i
ValueEnd(s, i) == IF IsValueSym(s, i + 1) THEN ValueEnd(s, i + 1) ELSE i

\* keyword \s* separator \s* ["']? [^"'\s]+ matched at index i, under
\* re.IGNORECASE: the index of the last symbol of the match, 0 when none
AssignMatchEnd(s, i, keywords, separators) ==
    IF Lower(s[i]) \notin keywords THEN 0
    ELSE LET k == SkipSpace(s, i + 1)
         IN  IF ~(k <= Len(s) /\ s[k] \in separators) THEN 0
             ELSE LET v == SkipSpace(s, k + 1)
                  IN  IF IsValueSym(s, v) THEN ValueEnd(s, v)
                      ELSE IF v <= Len(s) /\ IsQuote(s[v]) /\ IsValueSym(s, v + 1)
                           THEN ValueEnd(s, v + 1)
                      ELSE 0

RECURSIVE SubAssign(_, _, _, _, _)
\* re.sub of an assignment pattern by its replacement, from index i on
SubAssign(s, i, keywords, separators, replacement) ==
    IF i > Len(s) THEN <<>>
    ELSE LET j == AssignMatchEnd(s, i, keywords, separators)
         IN  IF j = 0 THEN <<s[i]>> \o SubAssign(s, i + 1, keywords, separators, replacement)
             ELSE <<replacement>> \o SubAssign(s, j + 1, keywords, separators, replacement)

\* the three SENSITIVE_PATTERNS, in their order
sanitize_output(output) ==
    LET tokens == SubToken(Flatten(output), 1)
        passwords == SubAssign(tokens, 1, {"password"}, {"="}, REDACTED_PASSWORD)
        keys == SubAssign(passwords, 1, {"api_key", "api-key", "apikey"}, {"=", ":"},
                          REDACTED_API_KEY)
    IN  Unflatten(keys, <<>>)

\* ---------------------------------------------------------- truncate_output
\* a limit that cuts a text of exactly max_lines lines
TruncateOffByOne(output, max_lines) ==
    IF Len(output) < max_lines THEN output
    ELSE (IF max_lines = 0 THEN EmptyText ELSE SubSeq(output, 1, max_lines))
            \o << <<>>, <<"[Output truncated:", ToStr(Len(output)),
                          "total lines, showing first", ToStr(max_lines), "]">> >>

\* truncate_output for a handler whose max_output_lines is max_lines
TruncateOutput(output, max_lines) ==
    IF Len(output) <= max_lines THEN output
    ELSE (IF max_lines = 0 THEN EmptyText ELSE SubSeq(output, 1, max_lines))
            \o << <<>>, <<"[Output truncated:", ToStr(Len(output)),
                          "total lines, showing first", ToStr(max_lines), "]">> >>

truncate_output(output) == TruncateOutput(output, max_output_lines)

\* --------------------------------------------- exit status extraction
\* execute_command, lines 143-156: the first line that starts with the probe
\* prefix and parses as an integer gives the exit code and is removed.
ExitLineIndexes(lines) ==
    {i \in 1..Len(lines) : StartsWithExitPrefix(lines[i]) /\ ExitCodeParses(lines[i])}

ExtractExitCode(text) ==
    IF ExitLineIndexes(text) = {}
    THEN [exit_code |-> 0, output |-> RStrip(text)]
    ELSE LET i == Min(ExitLineIndexes(text))
         IN  [exit_code |-> ParseInt(text[i][2]), output |-> RStrip(RemoveAt(text, i))]

\* ------------------------------------------------------------- the requests
CmdEcho == <<"echo", "a">>
CmdFalse == <<"false">>
CmdExport == <<"export", "X=1">>
CmdGetX == <<"echo", "$X">>
CmdSleep == <<"sleep", "100">>
CmdOrphan == <<"(sleep 2; echo late)&", "sleep", "100">>
CmdPrintf == <<"printf", "a;", "false">>
CmdEchoProbe == <<"echo", "EXIT_CODE:7">>
CmdEchoMinus == <<"echo", "EXIT_CODE:-1">>
CmdSecret == <<"echo", "api_key=", LongRun>>
CmdExit == <<"exit">>
CmdRm == <<"RM", "-rf", "/">>
CmdBadEnc == <<"echo", "<lone surrogate>">>
CmdEchoMarker == <<"echo", END_MARKER>>
CmdMarkerExit == <<"echo", END_MARKER, ";", "exit">>
NoCommand == <<>>

Commands == {CmdEcho, CmdFalse, CmdExport, CmdGetX, CmdSleep, CmdOrphan,
             CmdPrintf, CmdEchoProbe, CmdEchoMinus, CmdSecret, CmdExit, CmdRm, CmdBadEnc}

\* tool_input: command defaults to "" and restart to False
Requests ==
    [command : Commands \cup {NoCommand}, restart : {FALSE}]
        \cup [command : {NoCommand, CmdEcho, CmdRm}, restart : {TRUE}]

\* requests whose command prints the text that every sentinel starts with
SentinelRequests == [command : {CmdEchoMarker, CmdMarkerExit}, restart : {FALSE}]

\* stdin.write encodes the text; a lone surrogate cannot be encoded
Encodable(command) == \A i \in 1..Len(command) : command[i] # "<lone surrogate>"

\* a command during which the shell blocks for longer than the timeout
IsSleep(command) == command = CmdSleep

Uuid(n) == <<"u1", "u2", "u3", "u4", "u5", "u6", "u7", "u8", "u9">>[n]

\* ----------------------------------------------------------------- state
VARIABLES
    process,       \* BashSession.process: index into procs
    procs,         \* every process spawned so far, in spawn order
    readers,       \* every reader thread started so far, in start order: where it
                   \* is, the process it reads at, the process it was started for (of)
    queue,         \* output_queue of the _read_with_timeout call in flight
    output_lines,  \* output_lines of the _read_with_timeout call in flight
    pc,            \* where the caller's thread is inside handle()
    req,           \* tool_input of the call in flight (or of the last call)
    exc,           \* the exception being handled in execute_command
    resp,          \* what the last handle() returned
    calls,         \* number of handle() calls issued
    execCount,     \* number of execute_command invocations
    writeCount,    \* number of writes to a process's stdin
    nmarkers,      \* number of uuid4 values drawn
    exits,         \* number of times a process died on its own
    faultBudget,   \* number of Popen failures the environment may still cause
    closed,        \* close() was called and no process spawned since
    cur,           \* what the shell has done with the command of the call in flight
    prev,          \* the path the call before the last one returned on
    lastRestart,   \* the number of the last call that asked for a restart
    log,           \* what the call in flight (or the last call) handed to the logger
    pol,           \* a text going through the Command Policy's functions
    editor,        \* the text editor tool handler and the files it works on
    memory,        \* the memory tool handler and the files it works on
    agent,         \* one call of the agent's conversation loop
    skills         \* a skills directory and what the loader made of it

vars == <<process, procs, readers, queue, output_lines, pc, req, exc, resp, calls,
          execCount, writeCount, nmarkers, exits, faultBudget, closed, cur, prev, lastRestart,
          log, pol, editor, memory, agent, skills>>

\* the components beside the session and the Command Policy
collaborators == <<editor, memory, agent, skills>>

\* the state of the Execution Handler and its session
sessionVars == <<process, procs, readers, queue, output_lines, pc, req, exc, resp, calls,
                 execCount, writeCount, nmarkers, exits, faultBudget, closed, cur, prev,
                 lastRestart, log>>

\* a process as subprocess.Popen(['/bin/bash'], ...) creates it
FreshProcess ==
    [alive |-> TRUE, stdin |-> <<>>, pipe |-> <<>>, partial |-> <<>>,
     orphan |-> FALSE, X |-> 0, status |-> 0,
     ran |-> 0, seenX |-> 0, cmdStatus |-> 0, done |-> 0]

NoResponse ==
    [keys |-> {}, output |-> EmptyText, error |-> EmptyText, exit_code |-> 0,
     message |-> <<>>, raised |-> FALSE, kind |-> "none"]

\* the shell has not (yet) run the command of the call; fresh is the process
\* that the call spawned because it found the session's process dead (0: none)
NotRun == [ran |-> FALSE, done |-> FALSE, process |-> 0, X |-> 0, status |-> 0, fresh |-> 0]

InitCommon ==
    /\ process = 1
    /\ procs = <<FreshProcess>>
    /\ readers = <<>>
    /\ queue = <<>>
    /\ output_lines = <<>>
    /\ pc = "idle"
    /\ req = [command |-> NoCommand, restart |-> FALSE]
    /\ exc = "none"
    /\ resp = NoResponse
    /\ calls = 0
    /\ execCount = 0
    /\ writeCount = 0
    /\ nmarkers = 0
    /\ exits = 0
    /\ closed = FALSE
    /\ cur = NotRun
    /\ prev = "none"
    /\ lastRestart = 0
    /\ log = <<>>

\* ------------------------------------------------------- files and paths
\* A path is what pathlib makes of the string: absolute or not, and its parts.
\* A location is the list of names from the root that the operating system
\* reaches for a path. Directories are fixed; files come and go.
base_path == <<"base">>

Dirs == {<<>>, <<"base">>, <<"base", "d">>, <<"out">>}

\* the file outside the base directory, and what is in it
OutsideFile == <<"out", "s">>
Secret == <<"secret">>

\* base/link and memories/link are symbolic links to the directory /out
SymlinkTarget(loc) ==
    IF loc \in {<<"base", "link">>, <<"memories", "link">>} THEN <<"out">> ELSE loc

RECURSIVE Resolve(_, _)
\* Path.resolve(), and what open() does with a path: ".." steps and symbolic
\* links are followed from the root
Resolve(loc, parts) ==
    IF parts = <<>> THEN loc
    ELSE IF Head(parts) = ".."
    THEN Resolve(IF loc = <<>> THEN loc ELSE SubSeq(loc, 1, Len(loc) - 1), Tail(parts))
    ELSE Resolve(SymlinkTarget(Append(loc, Head(parts))), Tail(parts))

\* PurePath.relative_to(b) succeeds: a comparison of parts, nothing is resolved
IsRelativeTo(p, b) == Len(b) <= Len(p) /\ SubSeq(p, 1, Len(b)) = b

\* a dict (or a directory's files): lookup with a default, store, delete
Get(f, k, default) == IF k \in DOMAIN f THEN f[k] ELSE default
Put(f, k, v) == [x \in DOMAIN f \cup {k} |-> IF x = k THEN v ELSE f[x]]
Del(f, k) == [x \in DOMAIN f \ {k} |-> f[x]]

\* ------------------------------------------------------- the text editor
NormalizeLexical(path) ==
    IF path.abs /\ ~IsRelativeTo(path.parts, base_path)
    THEN [ok |-> FALSE, full |-> <<>>, error |-> "Path outside base directory"]
    ELSE [ok |-> TRUE, full |-> IF path.abs THEN path.parts ELSE base_path \o path.parts,
          error |-> "none"]

\* TextEditorToolHandler._normalize_path with base_path set
_normalize_path(path) ==
    IF path.abs /\ ~IsRelativeTo(path.parts, base_path)
    THEN [ok |-> FALSE, full |-> <<>>, error |-> "Path outside base directory"]
    ELSE LET full_path == IF path.abs THEN path.parts ELSE base_path \o path.parts
         IN  IF ~IsRelativeTo(Resolve(<<>>, full_path), Resolve(<<>>, base_path))
             THEN [ok |-> FALSE, full |-> <<>>, error |-> "Path traversal detected"]
             ELSE [ok |-> TRUE, full |-> full_path, error |-> "none"]

\* the file file_path.with_suffix(suffix + '.backup'), or '.backup<n>' for n > 0
BackupFile(file_path, n) ==
    [dir |-> Resolve(<<>>, SubSeq(file_path, 1, Len(file_path) - 1)),
     name |-> file_path[Len(file_path)], n |-> n]

BackupPathFirst(e, file_path) == BackupFile(file_path, 0)

\* _create_backup, lines 100-104: the first backup name that does not exist
backup_path(e, file_path) ==
    BackupFile(file_path,
        CHOOSE n \in 0..Cardinality(DOMAIN e.backups) :
            /\ BackupFile(file_path, n) \notin DOMAIN e.backups
            /\ \A m \in 0..(n - 1) : BackupFile(file_path, m) \in DOMAIN e.backups)

\* _create_backup for a file that exists: copy, then record it for undo; each
\* backup file also carries the key it was made for
_create_backup(e, file_path) ==
    LET bp == backup_path(e, file_path)
    IN  [e EXCEPT !.backups = Put(@, bp, [content |-> e.files[Resolve(<<>>, file_path)],
                                          made_for |-> file_path]),
                  !.backup_history = Put(@, file_path,
                                         Append(Get(e.backup_history, file_path, <<>>), bp)),
                  !.backup = bp]

\* what a handler returns; touched is every location it handed to the file
\* system
Answer(e, ok, message, touched) ==
    [e EXCEPT !.resp = [ok |-> ok, message |-> message], !.touched = touched]

_handle_view(e, full_path) ==
    LET loc == Resolve(<<>>, full_path)
    IN  IF loc \in Dirs THEN Answer(e, TRUE, "Directory listing", {loc})
        ELSE IF loc \in DOMAIN e.files
        THEN Answer([e EXCEPT !.content = e.files[loc]], TRUE, "File contents", {loc})
        ELSE Answer(e, FALSE, "Path does not exist", {loc})

\* content.replace(old_str, new_str, 1) on a text of one-word lines
ReplaceFirst(content, old_str, new_str) ==
    LET i == CHOOSE j \in 1..Len(content) :
                 content[j] = old_str /\ \A k \in 1..(j - 1) : content[k] # old_str
    IN  [content EXCEPT ![i] = new_str]

_handle_str_replace(e, full_path, tool_input) ==
    LET loc == Resolve(<<>>, full_path)
    IN  IF loc \notin DOMAIN e.files THEN Answer(e, FALSE, "File does not exist", {loc})
        ELSE IF tool_input.old_str = ""
        THEN Answer(e, FALSE, "old_str parameter is required", {loc})
        ELSE IF \A j \in 1..Len(e.files[loc]) : e.files[loc][j] # tool_input.old_str
        THEN Answer(e, FALSE, "String not found in file", {loc})
        ELSE LET b == _create_backup(e, full_path)
             IN  Answer([b EXCEPT !.files[loc] =
                            ReplaceFirst(@, tool_input.old_str, tool_input.new_str)],
                        TRUE, "Replaced text in file", {loc})

_handle_create(e, full_path, tool_input) ==
    LET loc == Resolve(<<>>, full_path)
    IN  IF loc \in Dirs
        THEN \* copy2 of a directory raises
             Answer(e, FALSE, "Error creating file", {loc})
        ELSE IF loc \in DOMAIN e.files
        THEN Answer([_create_backup(e, full_path) EXCEPT !.files[loc] = tool_input.file_text],
                    TRUE, "Overwrote file", {loc})
        ELSE Answer([e EXCEPT !.files = Put(@, loc, tool_input.file_text)],
                    TRUE, "Created file", {loc})

\* lines.insert(insert_index, ...) with insert_index = max(0, min(insert_line, len(lines)))
InsertLine(lines, insert_line, new_str) ==
    LET insert_index == IF insert_line < 0 THEN 0
                        ELSE IF insert_line > Len(lines) THEN Len(lines) ELSE insert_line
    IN  SubSeq(lines, 1, insert_index) \o <<new_str>>
            \o SubSeq(lines, insert_index + 1, Len(lines))

\* insert_line is an int, None (the key is missing) or a str such as "1"; min()
\* of a str and an int raises after the backup was made
_handle_insert(e, full_path, tool_input) ==
    LET loc == Resolve(<<>>, full_path)
    IN  IF loc \notin DOMAIN e.files THEN Answer(e, FALSE, "File does not exist", {loc})
        ELSE IF tool_input.insert_line.type = "None"
        THEN Answer(e, FALSE, "insert_line parameter is required", {loc})
        ELSE IF tool_input.insert_line.type # "int"
        THEN Answer(_create_backup(e, full_path), FALSE, "Error inserting text", {loc})
        ELSE Answer([_create_backup(e, full_path) EXCEPT !.files[loc] =
                        InsertLine(@, tool_input.insert_line.value, tool_input.new_str)],
                    TRUE, "Inserted text", {loc})

_handle_undo_edit(e, full_path) ==
    LET loc == Resolve(<<>>, full_path)
        history == Get(e.backup_history, full_path, <<>>)
    IN  IF history = <<>> THEN Answer(e, FALSE, "No backup available", {})
        ELSE LET bp == history[Len(history)]
                 popped == [e EXCEPT !.backup_history =
                               Put(@, full_path, SubSeq(history, 1, Len(history) - 1)),
                            !.backup = bp]
             IN  IF bp \notin DOMAIN e.backups
                 THEN Answer(popped, FALSE, "Backup file not found", {loc})
                 ELSE Answer([popped EXCEPT !.files = Put(@, loc, e.backups[bp].content),
                                            !.backups = Del(@, bp)],
                             TRUE, "Reverted last edit", {loc})

NoBackup == [dir |-> <<>>, name |-> "", n |-> 0]

\* TextEditorToolHandler.handle
EditorHandle(e0, tool_input) ==
    LET e == [e0 EXCEPT !.content = <<>>, !.backup = NoBackup]
        norm == _normalize_path(tool_input.path)
    IN  IF ~norm.ok THEN Answer(e, FALSE, norm.error, {})
        ELSE CASE tool_input.command = "view" -> _handle_view(e, norm.full)
               [] tool_input.command = "str_replace" ->
                      _handle_str_replace(e, norm.full, tool_input)
               [] tool_input.command = "create" -> _handle_create(e, norm.full, tool_input)
               [] tool_input.command = "insert" -> _handle_insert(e, norm.full, tool_input)
               [] tool_input.command = "undo_edit" -> _handle_undo_edit(e, norm.full)
               [] OTHER -> Answer(e, FALSE, "Unknown command", {})

\* the last call, for the properties: what it was, and what the path's own
\* history of edits says an undo has to bring back
NoCall ==
    [command |-> "none", path |-> [abs |-> FALSE, parts |-> <<>>], key |-> <<>>,
     pushed |-> 0, pending |-> <<>>, made_for |-> <<>>]

\* TextEditorToolHandler.__init__ over a directory that holds the file a, and
\* possibly a file a.backup that an earlier handler left behind
NewEditor(stale) ==
    [files |-> (<<"base", "a">> :> <<"x">>) @@ (OutsideFile :> Secret),
     backups |-> IF stale
                 THEN (BackupFile(<<"base", "a">>, 0) :>
                           [content |-> <<"old">>, made_for |-> <<>>])
                 ELSE <<>>,
     backup_history |-> <<>>,
     resp |-> [ok |-> TRUE, message |-> "none"],
     content |-> <<>>, backup |-> NoBackup, touched |-> {},
     ops |-> 0, edits |-> <<>>, failed |-> {}, last |-> NoCall]

NoEditor == NewEditor(FALSE)

\* --------------------------------------------------------- the memory tool
\* MemoryToolHandler.base_path, "./memories" with the root as working
\* directory; memories/link is a symbolic link to the directory /out
MemoriesPath == <<"memories">>

MemoryNormalizeUnchecked(m, path) ==
    LET stripped == IF Len(path) >= 2 /\ path[1] = "/" /\ path[2] \in {"memories", "scratchpad"}
                    THEN SubSeq(path, 3, Len(path)) ELSE path
        relative == IF stripped # <<>> /\ stripped[1] = "/" THEN Tail(stripped) ELSE stripped
        names == SelectSeq(relative, LAMBDA t : t # "/")
    IN  [ok |-> TRUE,
         full |-> (IF relative # <<>> /\ relative[1] = "/" THEN <<>> ELSE MemoriesPath)
                     \o [i \in DOMAIN names |->
                            IF names[i] = "link" /\ ~m.link THEN "unlinked" ELSE names[i]]]

\* MemoryToolHandler._normalize_path on the path as a string of "/" and names:
\* the virtual root is cut off, then one leading "/"; what is left is joined to
\* base_path (a path that still starts with "/" replaces it) and has to
\* resolve to a place under the resolved base_path. Once the symbolic link is
\* gone its name is an ordinary one, written "unlinked"
MemoryNormalizePath(m, path) ==
    LET stripped == IF Len(path) >= 2 /\ path[1] = "/" /\ path[2] \in {"memories", "scratchpad"}
                    THEN SubSeq(path, 3, Len(path)) ELSE path
        relative == IF stripped # <<>> /\ stripped[1] = "/" THEN Tail(stripped) ELSE stripped
        names == SelectSeq(relative, LAMBDA t : t # "/")
        full_path == (IF relative # <<>> /\ relative[1] = "/" THEN <<>> ELSE MemoriesPath)
                         \o [i \in DOMAIN names |->
                                IF names[i] = "link" /\ ~m.link THEN "unlinked" ELSE names[i]]
    IN  [ok |-> IsRelativeTo(Resolve(<<>>, full_path), Resolve(<<>>, MemoriesPath)),
         full |-> full_path]

\* Path.mkdir(parents=True, exist_ok=True) of the parent of loc: the
\* directories it leaves; it fails when a file is in the way
MkdirParents(m, loc) ==
    LET parents == {SubSeq(loc, 1, k) : k \in 0..(Len(loc) - 1)}
    IN  IF parents \cap DOMAIN m.files # {} THEN [ok |-> FALSE, dirs |-> m.dirs]
        ELSE [ok |-> TRUE, dirs |-> m.dirs \cup parents]

\* where loc, a place at or below from, is after from was renamed to to
Moved(loc, from, to) == to \o SubSeq(loc, Len(from) + 1, Len(loc))

\* list.insert(index, x) with Python's clamping of the index
ListInsert(lines, index, x) ==
    LET n == Len(lines)
        i == IF index < 0 THEN (IF n + index < 0 THEN 0 ELSE n + index)
             ELSE IF index > n THEN n ELSE index
    IN  SubSeq(lines, 1, i) \o <<x>> \o SubSeq(lines, i + 1, n)

\* MemoryToolHandler.handle and the handler of each command; an exception of a
\* file system call is caught by handle and becomes an error
MemoryHandle(m0, tool_input) ==
    LET m == [m0 EXCEPT !.content = <<>>, !.touched = {}]
        norm == MemoryNormalizePath(m, tool_input.path)
        loc == Resolve(<<>>, norm.full)
        is_file == loc \in DOMAIN m.files
        is_dir == loc \in m.dirs
        Error(message, touched) ==
            [m EXCEPT !.resp = [ok |-> FALSE, message |-> message], !.touched = touched]
        Done(after, message, touched) ==
            [after EXCEPT !.resp = [ok |-> TRUE, message |-> message], !.touched = touched]
        command == tool_input.command
    IN  IF ~norm.ok THEN Error("Path traversal detected", {})
        ELSE IF command = "view"
        THEN IF is_dir THEN Done(m, "Directory listing", {loc})
             ELSE IF is_file THEN Done([m EXCEPT !.content = m.files[loc]], "File contents", {loc})
             ELSE Error("Path does not exist", {loc})
        ELSE IF command = "create"
        THEN IF ~MkdirParents(m, loc).ok THEN Error("Error executing create", {loc})
             ELSE IF is_dir
             THEN [Error("Error executing create", {loc})
                      EXCEPT !.dirs = MkdirParents(m, loc).dirs]
             ELSE Done([m EXCEPT !.dirs = MkdirParents(m, loc).dirs,
                                 !.files = Put(@, loc, tool_input.file_text)],
                       "Created file", {loc})
        ELSE IF command = "str_replace"
        THEN IF ~is_file THEN Error("File does not exist", {loc})
             ELSE IF \A j \in 1..Len(m.files[loc]) : m.files[loc][j] # tool_input.old_str
             THEN Error("String not found in file", {loc})
             ELSE Done([m EXCEPT !.files[loc] =
                           ReplaceFirst(@, tool_input.old_str, tool_input.new_str)],
                       "Replaced text in file", {loc})
        ELSE IF command = "insert"
        THEN IF ~is_file THEN Error("File does not exist", {loc})
             ELSE Done([m EXCEPT !.files[loc] =
                           ListInsert(@, tool_input.line_number - 1, tool_input.text)],
                       "Inserted text", {loc})
        ELSE IF command = "delete"
        THEN IF is_file THEN Done([m EXCEPT !.files = Del(@, loc)], "Deleted file", {loc})
             ELSE IF is_dir
             THEN \* shutil.rmtree, which removes a symbolic link and not what it names
                  Done([m EXCEPT
                           !.files = [f \in {g \in DOMAIN m.files : ~IsRelativeTo(g, loc)} |-> m.files[f]],
                           !.dirs = {d \in m.dirs : ~IsRelativeTo(d, loc)},
                           !.link = @ /\ loc # MemoriesPath],
                       "Deleted directory", {loc})
             ELSE Error("Path does not exist", {loc})
        ELSE IF command = "rename"
        THEN LET new_norm == MemoryNormalizePath(m, tool_input.new_path)
                 new_loc == Resolve(<<>>, new_norm.full)
                 made == MkdirParents(m, new_loc).dirs
                 refused == [Error("Error executing rename", {loc, new_loc})
                                EXCEPT !.dirs = made]
                 new_is_file == new_loc \in DOMAIN m.files
                 new_is_dir == new_loc \in made
                 new_is_empty == \A x \in (DOMAIN m.files) \cup made :
                                     IsRelativeTo(x, new_loc) => x = new_loc
             IN  IF ~new_norm.ok THEN Error("Path traversal detected", {})
                 ELSE IF ~MkdirParents(m, new_loc).ok \/ ~(is_file \/ loc \in made)
                 THEN refused
                 ELSE IF loc = new_loc THEN Done([m EXCEPT !.dirs = made], "Renamed", {loc})
                 ELSE IF is_file
                 THEN IF new_is_dir THEN refused
                      ELSE Done([m EXCEPT !.dirs = made,
                                          !.files = Put(Del(@, loc), new_loc, m.files[loc])],
                                "Renamed", {loc, new_loc})
                 ELSE IF new_is_file \/ IsRelativeTo(new_loc, loc) \/ (new_is_dir /\ ~new_is_empty)
                 THEN refused
                 ELSE Done([m EXCEPT
                               !.dirs = {IF IsRelativeTo(d, loc) THEN Moved(d, loc, new_loc) ELSE d :
                                            d \in made},
                               !.files = [f \in {IF IsRelativeTo(g, loc) THEN Moved(g, loc, new_loc)
                                                 ELSE g : g \in DOMAIN m.files} |->
                                             IF IsRelativeTo(f, new_loc)
                                             THEN m.files[Moved(f, new_loc, loc)]
                                             ELSE m.files[f]]],
                           "Renamed", {loc, new_loc})
        ELSE Error("Unknown command", {})

\* MemoryToolHandler.__init__ with ./memories holding the file a and the
\* symbolic link; last and before keep the last request and the files and
\* directories it found
NewMemory ==
    [files |-> (<<"memories", "a">> :> <<"x">>) @@ (OutsideFile :> Secret),
     dirs |-> {<<>>, <<"memories">>, <<"out">>}, link |-> TRUE,
     resp |-> [ok |-> TRUE, message |-> "none"], content |-> <<>>, touched |-> {},
     ops |-> 0,
     last |-> [command |-> "none", path |-> <<>>, new_path |-> <<>>],
     before |-> [files |-> <<>>, dirs |-> {}, link |-> TRUE]]

NoMemory == NewMemory

\* ---------------------------------------------------- the conversation loop
\* a content block of a response or a message
Block(type, id, name) == [type |-> type, id |-> id, name |-> name]

\* responses of the API: the stop reason and the types (and tool names) of the
\* content blocks; the ids of tool_use blocks are given when it is received
Responses ==
    {[stop_reason |-> "end_turn", content |-> <<Block("text", 0, "")>>],
     [stop_reason |-> "tool_use",
      content |-> <<Block("text", 0, ""), Block("tool_use", 0, "bash")>>],
     [stop_reason |-> "tool_use",
      content |-> <<Block("tool_use", 0, "bash"), Block("tool_use", 0, "unknown")>>],
     [stop_reason |-> "end_turn",
      content |-> <<Block("server_tool_use", 0, "web_search"), Block("text", 0, "")>>],
     [stop_reason |-> "tool_use",
      content |-> <<Block("server_tool_use", 0, "web_search"), Block("text", 0, ""),
                    Block("tool_use", 0, "bash")>>],
     \* the output limit is reached after a tool_use block
     [stop_reason |-> "max_tokens",
      content |-> <<Block("text", 0, ""), Block("tool_use", 0, "bash")>>]}

\* the response as the n-th API call returns it: block.id is unique
Received(response, n) ==
    [response EXCEPT !.content =
        [i \in 1..Len(response.content) |-> [response.content[i] EXCEPT !.id = 4 * n + i]]]

has_server_tool_use(response) ==
    \E i \in 1..Len(response.content) : response.content[i].type = "server_tool_use"

has_client_tool_use(response) == response.stop_reason = "tool_use"

\* the names self.tool_handlers has a handler for
tool_handlers == {"bash"}

\* the tool_result block for a tool_use block: the handler's result, or the
\* error for a tool without a handler
ToolResult(block) ==
    Block("tool_result", block.id,
          IF block.name \in tool_handlers THEN "result" ELSE "No handler registered for tool")

IsToolUse(block) == block.type = "tool_use"

\* tool_results after the loop over response.content
ToolResults(content) ==
    LET uses == SelectSeq(content, IsToolUse)
    IN  [i \in 1..Len(uses) |-> ToolResult(uses[i])]

Message(role, content) == [role |-> role, content |-> content]

\* ClaudeAgent.call, the branches for responses with tool use: the assistant
\* message, then one user message with all tool results, if there are any
AgentToolMessages(response) ==
    <<Message("assistant", response.content)>>
        \o (IF has_client_tool_use(response) /\ ToolResults(response.content) # <<>>
            THEN <<Message("user", ToolResults(response.content))>>
            ELSE <<>>)

\* ClaudeHarness.call, stop_reason tool_use: for every tool_use block the
\* assistant message (one dict, complete when the loop ends) is appended, then
\* a user message with that block's result
HarnessToolMessages(response) ==
    LET results == ToolResults(response.content)
        pair(i) == <<Message("assistant", response.content), Message("user", <<results[i]>>)>>
        RECURSIVE upto(_)
        upto(i) == IF i = 0 THEN <<>> ELSE upto(i - 1) \o pair(i)
    IN  upto(Len(results))

\* the number of tool_use blocks of the response a handler was run for
HandlerRuns(response) ==
    Len(SelectSeq(ToolResults(response.content), LAMBDA b : b.name = "result"))

\* call(user_message, max_turns) of ClaudeAgent or ClaudeHarness at its first
\* line; last and error_at say what the latest API call brought and which call
\* raised first
NewCall(who, max_turns) ==
    [who |-> who, max_turns |-> max_turns, turn |-> 0, pc |-> "loop",
     messages |-> <<Message("user", <<Block("text", 0, "user_message")>>)>>,
     returns |-> "nothing", handler_runs |-> 0, last |-> "none", error_at |-> 0]

NoAgent == NewCall("agent", 1)

\* ------------------------------------------------------------ skill loader
\* a line of a SKILL.md file: the "---" delimiter, "key: value" (value may be
\* empty) or other text
Delimiter == [t |-> "---", key |-> "", value |-> ""]
Field(key, value) == [t |-> "field", key |-> key, value |-> value]
OtherText == [t |-> "text", key |-> "", value |-> ""]

\* SKILL.md files: their lines, and whether the last line ends in a newline
SkillFiles ==
    LET fm(fields) == <<Delimiter>> \o fields \o <<Delimiter>>
        both == <<Field("name", "n"), Field("description", "d")>>
    IN  {[lines |-> fm(both) \o <<OtherText>>, newline |-> TRUE],
         [lines |-> fm(both \o <<Field("author", "x")>>) \o <<OtherText>>, newline |-> TRUE],
         [lines |-> fm(both), newline |-> TRUE],
         [lines |-> fm(both), newline |-> FALSE],
         [lines |-> <<OtherText>>, newline |-> TRUE],
         [lines |-> fm(<<Field("description", "d")>>) \o <<OtherText>>, newline |-> TRUE],
         [lines |-> fm(<<Field("name", "n")>>) \o <<OtherText>>, newline |-> TRUE],
         [lines |-> fm(<<Field("name", ""), Field("description", "d")>>), newline |-> TRUE]}

\* what iterdir() can find in the skills directory: a plain file, a directory
\* without SKILL.md, a directory with one
SkillItems ==
    {[is_dir |-> FALSE, has_skill_md |-> FALSE, skill_md |-> [lines |-> <<>>, newline |-> TRUE]],
     [is_dir |-> TRUE, has_skill_md |-> FALSE, skill_md |-> [lines |-> <<>>, newline |-> TRUE]]}
    \cup {[is_dir |-> TRUE, has_skill_md |-> TRUE, skill_md |-> f] : f \in SkillFiles}

RECURSIVE ItemLists(_)
ItemLists(n) ==
    IF n = 0 THEN {<<>>}
    ELSE ItemLists(n - 1) \cup
         {Append(l, i) : l \in {k \in ItemLists(n - 1) : Len(k) = n - 1}, i \in SkillItems}

\* the lines the frontmatter pattern captures as group 1, as a pair <<matched,
\* lines>>: the file starts with a delimiter line and a later line, after at
\* least one character of content, is a delimiter that a newline follows
Frontmatter(file) ==
    LET closing == {j \in 3..Len(file.lines) :
                       /\ file.lines[j].t = "---"
                       /\ j < Len(file.lines) \/ file.newline}
    IN  IF file.lines # <<>> /\ file.lines[1].t = "---" /\ closing # {}
        THEN <<TRUE, SubSeq(file.lines, 2,
                            (CHOOSE j \in closing : \A k \in closing : j <= k) - 1)>>
        ELSE <<FALSE, <<>>>>

AnyFrontmatter(file) ==
    LET closing == {j \in 3..Len(file.lines) : file.lines[j].t = "---"}
    IN  IF file.lines # <<>> /\ file.lines[1].t = "---" /\ closing # {}
        THEN <<TRUE, SubSeq(file.lines, 2,
                            (CHOOSE j \in closing : \A k \in closing : j <= k) - 1)>>
        ELSE <<FALSE, <<>>>>

\* metadata[key], as the loop over the frontmatter's lines leaves it: the
\* value of the last "key: value" line with a value, or "" for no entry
MetadataValue(frontmatter, key) ==
    LET at == {i \in 1..Len(frontmatter) :
                  /\ frontmatter[i].t = "field"
                  /\ frontmatter[i].key = key
                  /\ frontmatter[i].value # ""}
    IN  IF at = {} THEN ""
        ELSE frontmatter[CHOOSE i \in at : \A k \in at : k <= i].value

\* SkillLoader._parse_skill_metadata: <<found, name, description>>
_parse_skill_metadata(skill_file) ==
    LET fm == Frontmatter(skill_file)
    IN  IF ~fm[1] THEN <<FALSE, "", "">>
        ELSE IF MetadataValue(fm[2], "name") = "" \/ MetadataValue(fm[2], "description") = ""
        THEN <<FALSE, "", "">>
        ELSE <<TRUE, MetadataValue(fm[2], "name"), MetadataValue(fm[2], "description")>>

\* an item of the skills directory gets an entry
IsLoaded(item) ==
    item.is_dir /\ item.has_skill_md /\ _parse_skill_metadata(item.skill_md)[1]

\* SkillLoader.load_skills over a skills path that is missing, a file, or a
\* directory with the items iterdir() yields; the i-th item is named i
load_skills(dir) ==
    IF dir.kind # "dir" THEN <<>>
    ELSE LET at == SelectSeq([i \in 1..Len(dir.items) |-> i],
                             LAMBDA i : IsLoaded(dir.items[i]))
         IN  [k \in 1..Len(at) |->
                 [name |-> _parse_skill_metadata(dir.items[at[k]].skill_md)[2],
                  description |-> _parse_skill_metadata(dir.items[at[k]].skill_md)[3],
                  path |-> at[k]]]

\* SkillLoader.__init__
NewLoader(dir) == [dir |-> dir, skills |-> <<>>, loads |-> 0]

NoSkills == NewLoader([kind |-> "missing", items |-> <<>>])


\* no text is going through the Command Policy on its own
NoPolicyRun ==
    [text |-> EmptyText, max_lines |-> max_output_lines, ops |-> <<>>, before |-> EmptyText,
     input |-> EmptyText, secret |-> {}]

\* BashToolHandler.__init__ / BashSession.__init__: one process, spawned
\* the collaborators are not in use
InitCollaborators ==
    /\ editor = NoEditor
    /\ memory = NoMemory
    /\ agent = NoAgent
    /\ skills = NoSkills

Init == InitCommon /\ faultBudget = 0 /\ pol = NoPolicyRun /\ InitCollaborators

\* the same, in an environment where Popen may fail
InitSpawnFault ==
    InitCommon /\ faultBudget \in 0..MaxSpawnFaults /\ pol = NoPolicyRun /\ InitCollaborators

\* ------------------------------------------------------ the session's parts
\* Popen.kill(): SIGKILL to the shell; what it had not read from stdin and a
\* line it had not finished are gone.  A no-op on a process already reaped.
Kill(ps, p) ==
    [ps EXCEPT ![p].alive = FALSE, ![p].stdin = <<>>, ![p].partial = <<>>, ![p].status = 0]

\* outcomes of subprocess.Popen in _start_session
SpawnOutcomes == IF faultBudget > 0 THEN {TRUE, FALSE} ELSE {TRUE}

\* _start_session that spawns nothing
StartSessionSkipped(ps, ok) ==
    /\ procs' = ps
    /\ process' = process
    /\ faultBudget' = faultBudget
    /\ closed' = closed

\* _start_session that keeps the process it has
StartSessionKeep(ps, ok) ==
    /\ procs' = [procs EXCEPT ![process].alive = TRUE]
    /\ process' = process
    /\ faultBudget' = faultBudget
    /\ closed' = FALSE

\* _start_session on the process table ps: self.process is assigned only when
\* Popen returns
StartSession(ps, ok) ==
    /\ procs' = IF ok THEN Append(ps, FreshProcess) ELSE ps
    /\ process' = IF ok THEN Len(ps) + 1 ELSE process
    /\ faultBudget' = IF ok THEN faultBudget ELSE faultBudget - 1
    /\ closed' = IF ok THEN FALSE ELSE closed

\* a liveness check that finds every process dead
PollAlwaysDead(p) == FALSE

\* Popen.poll() is None: process p is running
Poll(p) == procs[p].alive

\* the stdout of process p is at end of file: nothing holds its write end
AtEOF(p) == ~procs[p].alive /\ ~procs[p].orphan /\ procs[p].pipe = <<>>

\* ------------------------------------------------------ handle's responses
\* the working directory the handler was constructed with
working_dir == <<"/", LongRun>>

\* str(e): the OSError of a Popen that cannot enter the working directory
\* names the directory
ExcText(e) ==
    IF e = "OSError" THEN <<"[Errno 2] No such file or directory:">> \o working_dir
    ELSE <<e>>

\* logger.warning / logger.error with a message
LogMessage(level, message) ==
    [fn |-> level, text |-> <<message>>, output |-> EmptyText, error |-> EmptyText,
     exit_code |-> 0]

\* log_command(command, output, error, exit_code)
LogCommand(command, r) ==
    [fn |-> "log_command", text |-> <<command>>, output |-> r.output, error |-> r.error,
     exit_code |-> r.exit_code]

\* a restart announced with another text
RestartResponseOtherText ==
    [keys |-> {"message", "output"}, output |-> EmptyText, error |-> EmptyText,
     exit_code |-> 0, message |-> <<"New session started">>, raised |-> FALSE,
     kind |-> "restart"]

RestartResponse ==
    [keys |-> {"message", "output"}, output |-> EmptyText, error |-> EmptyText,
     exit_code |-> 0, message |-> <<"New bash session started">>, raised |-> FALSE,
     kind |-> "restart"]

\* a client error reported with the exit code of an internal fault
ErrorResponseAsFault(error, code, kind) ==
    [keys |-> {"error", "output", "exit_code"}, output |-> EmptyText, error |-> error,
     exit_code |-> -1, message |-> <<>>, raised |-> FALSE, kind |-> kind]

\* an error response without the output field
ErrorResponseNoOutput(error, code, kind) ==
    [keys |-> {"error", "exit_code"}, output |-> EmptyText, error |-> error,
     exit_code |-> code, message |-> <<>>, raised |-> FALSE, kind |-> kind]

ErrorResponse(error, code, kind) ==
    [keys |-> {"error", "output", "exit_code"}, output |-> EmptyText, error |-> error,
     exit_code |-> code, message |-> <<>>, raised |-> FALSE, kind |-> kind]

\* an exception leaves handle()
Raised(e) ==
    [keys |-> {}, output |-> EmptyText, error |-> << <<e>> >>, exit_code |-> 0,
     message |-> <<>>, raised |-> TRUE, kind |-> "raised"]

\* handle, lines 361-391, on the result of execute_command; an error of None
\* is the empty text here, both are falsy
ComposeResponse(result, kind) ==
    LET output == IF NonEmptyText(result.output)
                  THEN truncate_output(sanitize_output(result.output))
                  ELSE result.output
        error == IF NonEmptyText(result.error)
                 THEN truncate_output(sanitize_output(result.error))
                 ELSE result.error
    IN  [keys |-> {"output", "exit_code", "message"}
                    \cup (IF NonEmptyText(error) THEN {"error"} ELSE {}),
         output |-> output,
         error |-> error,
         exit_code |-> result.exit_code,
         message |-> IF result.exit_code = 0
                     THEN <<"Command executed successfully">>
                     ELSE <<"Command exited with code", ToStr(result.exit_code)>>,
         raised |-> FALSE,
         kind |-> kind]

\* a timeout reported as an ordinary failure of the command
TimeoutResultAsFailure(lines) ==
    [output |-> JoinLines(lines),
     error |-> << <<"Command timed out after", ToStr(timeout), "seconds">> >>,
     exit_code |-> 1]

\* a timeout reported without an error text
TimeoutResultNoError(lines) ==
    [output |-> JoinLines(lines), error |-> EmptyText, exit_code |-> -1]

TimeoutResult(lines) ==
    [output |-> JoinLines(lines),
     error |-> << <<"Command timed out after", ToStr(timeout), "seconds">> >>,
     exit_code |-> -1]

\* a session error reported as an ordinary failure of the command
SessionErrorResultAsFailure(e) ==
    [output |-> EmptyText, error |-> << <<"Session error:">> \o ExcText(e) >>, exit_code |-> 1]

SessionErrorResult(e) ==
    [output |-> EmptyText, error |-> << <<"Session error:">> \o ExcText(e) >>, exit_code |-> -1]

SuccessResult(lines) ==
    LET x == ExtractExitCode(JoinLines(lines))
    IN  [output |-> x.output, error |-> EmptyText, exit_code |-> x.exit_code]

\* handle returns r; r.kind names the path it returns on
Return(r) ==
    /\ pc' = "idle"
    /\ resp' = r

\* --------------------------------------------------------------- handle
\* handle, lines 330-359, up to and including the liveness check of
\* execute_command (lines 120-121)
Handle(request) ==
    /\ pc = "idle"
    /\ UNCHANGED <<pol, collaborators>>
    /\ calls < MaxCalls
    /\ calls' = calls + 1
    /\ req' = request
    /\ prev' = resp.kind
    /\ cur' = [NotRun EXCEPT !.fresh =
                  IF ~request.restart /\ request.command # NoCommand
                        /\ validate_command(request.command)[1] /\ ~Poll(process)
                  THEN Len(procs) + 1 ELSE 0]
    /\ lastRestart' = IF request.restart THEN calls + 1 ELSE lastRestart
    /\ log' = IF ~request.restart /\ request.command # NoCommand
                    /\ ~validate_command(request.command)[1]
               THEN <<LogMessage("warning", <<"Blocked dangerous command:">> \o request.command)>>
               ELSE <<>>
    /\ UNCHANGED <<readers, queue, output_lines, writeCount, nmarkers, exits>>
    /\ IF request.restart
       THEN \* self.session.restart(): kill, then _start_session
            \E ok \in SpawnOutcomes :
               /\ StartSession(Kill(procs, process), ok)
               /\ UNCHANGED <<execCount, exc>>
               /\ IF ok THEN Return(RestartResponse) ELSE Return(Raised("OSError"))
       ELSE IF request.command = NoCommand
       THEN /\ UNCHANGED <<process, procs, faultBudget, closed, execCount, exc>>
            /\ Return(ErrorResponse(<< <<"No command provided">> >>, 1, "empty"))
       ELSE IF ~validate_command(request.command)[1]
       THEN /\ UNCHANGED <<process, procs, faultBudget, closed, execCount, exc>>
            /\ Return(ErrorResponse(validate_command(request.command)[2], 1, "blocked"))
       ELSE \* execute_with_timeout -> execute_command
            /\ execCount' = execCount + 1
            /\ resp' = NoResponse
            /\ IF Poll(process)
               THEN /\ pc' = "write"
                    /\ UNCHANGED <<process, procs, faultBudget, closed, exc>>
               ELSE \E ok \in SpawnOutcomes :
                       /\ StartSession(procs, ok)
                       /\ pc' = IF ok THEN "write" ELSE "except"
                       /\ exc' = IF ok THEN exc ELSE "OSError"

\* execute_command, lines 123-129 and the start of _read_with_timeout
\* (lines 69-90): marker, write, flush, new queue, new reader thread
ExecuteWrite ==
    /\ pc = "write"
    /\ UNCHANGED <<log, pol, collaborators>>
    /\ UNCHANGED <<process, req, resp, calls, execCount, exits, faultBudget, closed, cur, prev, lastRestart>>
    /\ IF ~Encodable(req.command) \/ ~procs[process].alive
       THEN /\ pc' = "except"
            /\ exc' = IF ~Encodable(req.command) THEN "UnicodeEncodeError"
                                                 ELSE "BrokenPipeError"
            /\ nmarkers' = nmarkers + 1
            /\ UNCHANGED <<procs, readers, queue, output_lines, writeCount>>
       ELSE /\ nmarkers' = nmarkers + 1
            /\ writeCount' = writeCount + 1
            /\ procs' = [procs EXCEPT ![process].stdin = @ \o
                  << [k |-> "cmd", arg |-> req.command, call |-> calls],
                     [k |-> "probe", arg |-> <<>>, call |-> calls],
                     [k |-> "marker", arg |-> <<Uuid(nmarkers + 1)>>, call |-> calls] >>]
            /\ readers' = Append(readers, [pc |-> "read", at |-> process, of |-> process])
            /\ queue' = <<>>
            /\ output_lines' = <<>>
            /\ pc' = "poll"
            /\ exc' = exc

\* _read_with_timeout, lines 92-100, one queue.get that returns a line; on the
\* marker, lines 143-162 and handle's lines 361-391
ReadQueue ==
    /\ pc = "poll"
    /\ UNCHANGED <<pol, collaborators>>
    /\ queue # <<>>
    /\ UNCHANGED <<process, procs, readers, req, exc, calls, execCount, writeCount,
                   nmarkers, exits, faultBudget, closed, cur, prev, lastRestart>>
    /\ IF ContainsEndMarker(Head(queue))
       THEN \* the locals of the call are gone when it returns
            /\ queue' = <<>>
            /\ output_lines' = <<>>
            /\ Return(ComposeResponse(SuccessResult(output_lines), "ok"))
            /\ log' = Append(log, LogCommand(req.command,
                                  ComposeResponse(SuccessResult(output_lines), "ok")))
       ELSE /\ queue' = Tail(queue)
            /\ output_lines' = Append(output_lines, Head(queue))
            /\ UNCHANGED <<pc, resp, log>>

\* ------------------------------------------------------------ the shell

\* write(2) of a newline-terminated line: it completes the unfinished line
Emit(pr, line) == [pr EXCEPT !.pipe = Append(@, pr.partial \o line), !.partial = <<>>]

\* what running the command does to the process
RunCommand(pr, command, call) ==
    CASE command = CmdEcho -> [Emit(pr, <<"a">>) EXCEPT !.status = 0]
      [] command = CmdFalse -> [pr EXCEPT !.status = 1]
      [] command = CmdExport -> [pr EXCEPT !.X = call, !.status = 0]
      [] command = CmdGetX ->
            [Emit(pr, IF pr.X = 0 THEN <<>> ELSE <<"1">>) EXCEPT !.status = 0]
      [] command = CmdPrintf -> [pr EXCEPT !.partial = @ \o <<"a">>, !.status = 1]
      [] command = CmdEchoProbe -> [Emit(pr, <<EXIT_PREFIX, "7">>) EXCEPT !.status = 0]
      [] command = CmdEchoMinus -> [Emit(pr, <<EXIT_PREFIX, "-1">>) EXCEPT !.status = 0]
      [] command = CmdSecret -> [Emit(pr, <<"api_key", "=", LongRun>>) EXCEPT !.status = 0]
      [] command = CmdEchoMarker -> [Emit(pr, <<END_MARKER>>) EXCEPT !.status = 0]
      [] command = CmdMarkerExit ->
            [Emit(pr, <<END_MARKER>>) EXCEPT
                 !.alive = FALSE, !.stdin = <<>>, !.partial = <<>>, !.status = 0]
      [] command = CmdExit ->
            [pr EXCEPT !.alive = FALSE, !.stdin = <<>>, !.partial = <<>>, !.status = 0]
      [] OTHER -> pr

\* the exit status the command has in the shell
RealStatus(command) == IF command \in {CmdFalse, CmdPrintf} THEN 1 ELSE 0

\* the shell of process record pr has a statement it can run now
CanRun(pr) ==
    /\ pr.alive
    /\ pr.stdin # <<>>
    /\ ~(Head(pr.stdin).k = "cmd" /\ IsSleep(Head(pr.stdin).arg))

\* the shell reads the next statement from its stdin and runs it; ran, seenX,
\* cmdStatus and done record which call's command it ran and what it saw
RunItem(pr0, item) ==
    LET pr == [pr0 EXCEPT !.stdin = Tail(@)]
    IN  CASE item.k = "cmd" /\ item.arg = CmdOrphan ->
               \* the background child starts; the shell goes on to sleep
               [pr0 EXCEPT !.orphan = TRUE,
                           !.stdin = <<[item EXCEPT !.arg = CmdSleep]>> \o Tail(@)]
          [] item.k = "cmd" /\ item.arg # CmdOrphan ->
               [RunCommand(pr, item.arg, item.call) EXCEPT
                    !.ran = item.call, !.seenX = pr0.X, !.cmdStatus = RealStatus(item.arg)]
          [] item.k = "probe" ->
               [Emit(pr, <<EXIT_PREFIX, ToStr(pr.status)>>) EXCEPT !.status = 0]
          [] item.k = "marker" ->
               [Emit(pr, <<END_MARKER>> \o item.arg) EXCEPT !.status = 0, !.done = item.call]

\* the shell of process p has a statement it can run now
ShellCanStep(p) == CanRun(procs[p])

RECURSIVE RunShell(_)
\* the shell runs what it has been sent, statement after statement, until it
\* blocks in a sleep, exits or has read everything
RunShell(pr) == IF CanRun(pr) THEN RunShell(RunItem(pr, Head(pr.stdin))) ELSE pr

ShellStep(p) ==
    /\ p \in 1..Len(procs)
    /\ UNCHANGED <<log, pol, collaborators>>
    /\ ShellCanStep(p)
    /\ LET after == RunShell(procs[p])
       IN  /\ procs' = [procs EXCEPT ![p] =
                    [after EXCEPT !.ran = 0, !.seenX = 0, !.cmdStatus = 0, !.done = 0]]
           /\ cur' = IF after.ran # calls THEN cur
                     ELSE [ran |-> TRUE, done |-> after.done = calls, process |-> p,
                           X |-> after.seenX, status |-> after.cmdStatus,
                           fresh |-> cur.fresh]
    /\ UNCHANGED <<process, readers, queue, output_lines, pc, req, exc, resp, calls,
                   execCount, writeCount, nmarkers, exits, faultBudget, closed, prev, lastRestart>>

\* the background child of a killed or sleeping shell writes its line and exits
OrphanWrite(p) ==
    /\ p \in 1..Len(procs)
    /\ UNCHANGED <<log, pol, collaborators>>
    /\ procs[p].orphan
    /\ procs' = [procs EXCEPT ![p].orphan = FALSE, ![p].pipe = Append(@, <<"late">>)]
    /\ UNCHANGED <<process, readers, queue, output_lines, pc, req, exc, resp, calls,
                   execCount, writeCount, nmarkers, exits, faultBudget, closed, cur, prev, lastRestart>>

\* the process dies on its own, between two calls or between the liveness
\* check and the write
ProcessExits ==
    /\ pc \in {"idle", "write"}
    /\ UNCHANGED <<log, pol, collaborators>>
    /\ exits < MaxExits
    /\ procs[process].alive
    /\ procs' = Kill(procs, process)
    /\ exits' = exits + 1
    /\ cur' = IF cur.fresh = process THEN [cur EXCEPT !.fresh = 0] ELSE cur
    /\ UNCHANGED <<process, readers, queue, output_lines, pc, req, exc, resp, calls,
                   execCount, writeCount, nmarkers, faultBudget, closed, prev, lastRestart>>

\* ------------------------------------------------------ the reader threads
\* reader, line 76: the thread evaluates self.process.stdout
ReaderEval(r) ==
    /\ r \in 1..Len(readers)
    /\ UNCHANGED <<log, pol, collaborators>>
    /\ readers[r].pc = "eval"
    /\ readers' = [readers EXCEPT ![r].pc = "read", ![r].at = process]
    /\ UNCHANGED <<process, procs, queue, output_lines, pc, req, exc, resp, calls,
                   execCount, writeCount, nmarkers, exits, faultBudget, closed, cur, prev, lastRestart>>

\* the queue of reader r is the one the caller is polling
FeedsCaller(r) == pc = "poll" /\ r = Len(readers)

\* reader, lines 76-79: readline returns a line, which goes to the thread's
\* queue, or it returns "" at end of file and the thread ends
ReaderRead(r) ==
    /\ r \in 1..Len(readers)
    /\ UNCHANGED <<log, pol, collaborators>>
    /\ readers[r].pc = "read"
    /\ LET p == readers[r].at
       IN  \/ /\ procs[p].pipe # <<>>
              /\ procs' = [procs EXCEPT ![p].pipe = Tail(@)]
              /\ queue' = IF FeedsCaller(r) THEN Append(queue, Head(procs[p].pipe)) ELSE queue
              /\ readers' = [readers EXCEPT ![r].pc = "eval", ![r].at = 0]
           \/ /\ AtEOF(p)
              /\ readers' = [readers EXCEPT ![r] = [pc |-> "done", at |-> 0, of |-> 0]]
              /\ UNCHANGED <<procs, queue>>
    /\ UNCHANGED <<process, output_lines, pc, req, exc, resp, calls,
                   execCount, writeCount, nmarkers, exits, faultBudget, closed, cur, prev, lastRestart>>

ReaderCanStep(r) ==
    \/ readers[r].pc = "eval"
    \/ readers[r].pc = "read"
          /\ (procs[readers[r].at].pipe # <<>> \/ AtEOF(readers[r].at))

\* a queue.get without a timeout
NeverTimesOut == FALSE

\* nothing is on its way to the caller: the time that passes is waiting time
Quiescent ==
    /\ queue = <<>>
    /\ \A p \in 1..Len(procs) : ~ShellCanStep(p)
    /\ \A r \in 1..Len(readers) : ~ReaderCanStep(r)

\* ------------------------------------------------- timeout and fault paths
\* _read_with_timeout returns timed out (lines 102-103); execute_command,
\* lines 134-141, and handle's lines 361-391
Timeout ==
    /\ pc = "poll"
    /\ UNCHANGED <<pol, collaborators>>
    /\ Quiescent
    /\ output_lines' = <<>>
    /\ UNCHANGED <<readers, queue, req, calls, execCount, writeCount,
                   nmarkers, exits, cur, prev, lastRestart>>
    /\ \E ok \in SpawnOutcomes :
          /\ StartSession(Kill(procs, process), ok)
          /\ IF ok THEN /\ Return(ComposeResponse(TimeoutResult(output_lines), "timeout"))
                        /\ log' = Append(log, LogCommand(req.command,
                                      ComposeResponse(TimeoutResult(output_lines), "timeout")))
                        /\ exc' = exc
                   ELSE /\ pc' = "except"
                        /\ exc' = "OSError"
                        /\ UNCHANGED <<resp, log>>

\* execute_command, lines 164-176, and what handle does with the outcome
\* (lines 361-391, or lines 393-399 when _start_session raises again)
Except ==
    /\ pc = "except"
    /\ UNCHANGED <<pol, collaborators>>
    /\ UNCHANGED <<readers, queue, output_lines, req, calls, execCount, writeCount,
                   nmarkers, exits, cur, prev, lastRestart>>
    /\ exc' = "none"
    /\ \E ok \in SpawnOutcomes :
          /\ StartSession(Kill(procs, process), ok)
          /\ IF ok
             THEN /\ Return(ComposeResponse(SessionErrorResult(exc), "fault"))
                  /\ log' = log \o
                        << LogMessage("error", <<"Error in execute_command:">> \o ExcText(exc)),
                           LogCommand(req.command,
                                      ComposeResponse(SessionErrorResult(exc), "fault")) >>
             ELSE /\ Return(ErrorResponse(
                        << <<"Error executing command:">> \o ExcText("OSError") >>,
                        -1, "handler_fault"))
                  /\ log' = log \o
                        << LogMessage("error", <<"Error in execute_command:">> \o ExcText(exc)),
                           LogMessage("error", <<"Error executing command:">>
                                                    \o ExcText("OSError")) >>

\* BashToolHandler.close -> BashSession.close
CloseLeavesRunning ==
    /\ pc = "idle"
    /\ closed' = TRUE
    /\ UNCHANGED <<process, procs, readers, queue, output_lines, pc, req, exc, resp, calls,
                   execCount, writeCount, nmarkers, exits, faultBudget, cur, prev, lastRestart,
                   log, pol, collaborators>>

Close ==
    /\ pc = "idle"
    /\ UNCHANGED <<log, pol, collaborators>>
    /\ procs' = Kill(procs, process)
    /\ closed' = TRUE
    /\ UNCHANGED <<process, readers, queue, output_lines, pc, req, exc, resp, calls,
                   execCount, writeCount, nmarkers, exits, faultBudget, cur, prev, lastRestart>>

Next ==
    \/ \E request \in Requests : Handle(request)
    \/ ExecuteWrite
    \/ ReadQueue
    \/ Timeout
    \/ Except
    \/ Close
    \/ ProcessExits
    \/ \E p \in 1..Len(procs) : ShellStep(p)
    \/ \E p \in 1..Len(procs) : OrphanWrite(p)
    \/ \E r \in 1..Len(readers) : ReaderEval(r)
    \/ \E r \in 1..Len(readers) : ReaderRead(r)

Spec == Init /\ [][Next]_vars

SpecSpawnFault == InitSpawnFault /\ [][Next]_vars

\* the session where the caller, the shell and the reader threads keep running
\* the caller's thread keeps running: a queue.get returns with a line when
\* there is one, the loop is left when nothing is on its way any more and the
\* time is used up, and the except clause runs to its end
PollTakesLine == pc = "poll" /\ queue # <<>> /\ queue' \in {<<>>, Tail(queue)}

PollGivesUp == pc = "poll" /\ Quiescent /\ pc' \in {"idle", "except"}

ExceptReturns == pc = "except" /\ pc' = "idle"

\* commands that complete with and without output, that never reach the
\* sentinel, and that make the shell exit
ReturnRequests ==
    [command : {CmdEcho, CmdFalse, CmdSleep, CmdOrphan, CmdExit}, restart : {FALSE}]

NextFair ==
    \/ \E request \in ReturnRequests : Handle(request)
    \/ ExecuteWrite
    \/ ReadQueue
    \/ Timeout
    \/ Except
    \/ Close
    \/ ProcessExits
    \/ \E p \in 1..Len(procs) : ShellStep(p)
    \/ \E p \in 1..Len(procs) : OrphanWrite(p)
    \/ \E r \in 1..Len(readers) : ReaderEval(r)
    \/ \E r \in 1..Len(readers) : ReaderRead(r)

\* the session where the caller, the shells and the reader threads keep running
SpecFair ==
    /\ Init
    /\ [][NextFair]_vars
    /\ WF_vars(ExecuteWrite)
    /\ WF_queue(PollTakesLine)
    /\ WF_pc(PollGivesUp)
    /\ WF_pc(ExceptReturns)
    /\ WF_vars(\E p \in 1..Len(procs) : ShellStep(p))
    /\ WF_vars(\E p \in 1..Len(procs) : OrphanWrite(p))
    /\ WF_vars(\E r \in 1..Len(readers) : ReaderEval(r))
    /\ WF_vars(\E r \in 1..Len(readers) : ReaderRead(r))

\* the same session, asked also for commands that print the sentinel's text
NextSentinel ==
    \/ \E request \in SentinelRequests : Handle(request)
    \/ Next

SpecSentinel == Init /\ [][NextSentinel]_vars

\* ------------------------------------------- the Command Policy on its own
\* sanitize_output and truncate_output are pure: the texts they are applied to
\* are drawn here, and the functions are applied to them in any order.
RECURSIVE TextsOf(_, _)
\* the texts of 1..n lines over the given lines
TextsOf(lines, n) ==
    IF n = 1 THEN {<<l>> : l \in lines}
    ELSE TextsOf(lines, n - 1) \cup
         {Append(t, l) : t \in {u \in TextsOf(lines, n - 1) : Len(u) = n - 1}, l \in lines}

\* texts for truncate_output, for handlers with a small max_output_lines
TruncateInputs ==
    {[text |-> t, max_lines |-> m, ops |-> <<>>, before |-> t, input |-> t, secret |-> {}] :
        t \in TextsOf({<<"a">>, <<>>}, MaxLines), m \in 0..MaxLimit}

PlainLine == <<"plain", " ", "line">>

\* keyword, separator: the assignments the SENSITIVE_PATTERNS are written for
AssignmentHeads ==
    ({"password", "PASSWORD"} \X {"="})
        \cup ({"api_key", "API_KEY", "apikey", "api-key"} \X {"=", ":"})

\* the value of an assignment with the quote around it, if any
AssignmentValues ==
    {[q |-> <<>>, v |-> <<"hunter2">>], [q |-> <<>>, v |-> <<LongRun>>],
     [q |-> <<"\"">>, v |-> <<"hunter2">>], [q |-> <<"\"">>, v |-> <<LongRun>>],
     [q |-> <<"\"">>, v |-> <<"correct", " ", "horse">>]}

\* texts for sanitize_output: an assignment of a secret, with or without a
\* line of other content before it, and runs of alphanumerics
SanitizeInputs ==
    {[text |-> pre \o << <<h[1]>> \o sp \o <<h[2]>> \o sp \o a.q \o a.v \o a.q >>,
      max_lines |-> max_output_lines, ops |-> <<>>,
      before |-> EmptyText, input |-> pre \o << <<h[1]>> \o sp \o <<h[2]>> \o sp \o a.q \o a.v \o a.q >>,
      secret |-> {a.v[i] : i \in 1..Len(a.v)} \ {" "}] :
        h \in AssignmentHeads, sp \in {<<>>, <<" ">>}, a \in AssignmentValues,
        pre \in {<<>>, <<PlainLine>>}}
    \cup
    {[text |-> <<r, PlainLine>>, max_lines |-> max_output_lines, ops |-> <<>>,
      before |-> EmptyText, input |-> <<r, PlainLine>>,
      secret |-> IF RunLen(r, 1, Len(r)) >= 20 THEN {r[i] : i \in 1..Len(r)} ELSE {}] :
        r \in {<<LongRun>>, <<"w12characters", "hunter2">>, <<"w12characters", "horse">>}}

InitPolicy ==
    /\ InitCommon
    /\ faultBudget = 0
    /\ pol \in TruncateInputs \cup SanitizeInputs
    /\ InitCollaborators

\* output = self.truncate_output(output)
ApplyTruncate ==
    /\ Len(pol.ops) < MaxOps
    /\ pol' = [pol EXCEPT !.before = pol.text,
                          !.text = TruncateOutput(pol.text, pol.max_lines),
                          !.ops = Append(@, "truncate")]
    /\ UNCHANGED <<process, procs, readers, queue, output_lines, pc, req, exc, resp, calls,
                   execCount, writeCount, nmarkers, exits, faultBudget, closed, cur, prev,
                   lastRestart, log, collaborators>>

\* output = self.sanitize_output(output)
ApplySanitize ==
    /\ Len(pol.ops) < MaxOps
    /\ pol' = [pol EXCEPT !.before = pol.text,
                          !.text = sanitize_output(pol.text),
                          !.ops = Append(@, "sanitize")]
    /\ UNCHANGED <<process, procs, readers, queue, output_lines, pc, req, exc, resp, calls,
                   execCount, writeCount, nmarkers, exits, faultBudget, closed, cur, prev,
                   lastRestart, log, collaborators>>

NextPolicy == ApplyTruncate \/ ApplySanitize

SpecPolicy == InitPolicy /\ [][NextPolicy]_vars

\* ------------------------------------------------ the text editor's calls
\* paths a request can name: files in the base directory under several
\* spellings, the base directory itself, and paths that leave it
EditorPaths ==
    {[abs |-> FALSE, parts |-> <<"a">>],
     [abs |-> FALSE, parts |-> <<"d", "..", "a">>],
     [abs |-> TRUE, parts |-> <<"base", "b">>],
     [abs |-> FALSE, parts |-> <<>>],
     [abs |-> FALSE, parts |-> <<"..", "out", "s">>],
     [abs |-> TRUE, parts |-> <<"out", "s">>],
     [abs |-> TRUE, parts |-> <<"base", "..", "out", "s">>],
     [abs |-> FALSE, parts |-> <<"link", "s">>]}

EditorRequest(command, path, old_str, new_str, file_text, insert_line) ==
    [command |-> command, path |-> path, old_str |-> old_str, new_str |-> new_str,
     file_text |-> file_text, insert_line |-> insert_line]

NoLine == [type |-> "None", value |-> 0]

InitEditor ==
    /\ InitCommon
    /\ faultBudget = 0
    /\ pol = NoPolicyRun
    /\ editor \in {NewEditor(stale) : stale \in BOOLEAN}
    /\ memory = NoMemory
    /\ agent = NoAgent
    /\ skills = NoSkills

\* one handle() call, and what it means for the path's history of edits
EditorCall(tool_input) ==
    /\ editor.ops < MaxEdits
    /\ LET norm == _normalize_path(tool_input.path)
           after == EditorHandle(editor, tool_input)
           key == norm.full
           loc == Resolve(<<>>, key)
           mutating == tool_input.command \in {"create", "str_replace", "insert"}
           pending == Get(editor.edits, key, <<>>)
           edited == mutating /\ norm.ok /\ after.resp.ok /\ loc \in DOMAIN editor.files
           undone == tool_input.command = "undo_edit" /\ after.resp.ok /\ pending # <<>>
       IN  editor' = [after EXCEPT
               !.ops = @ + 1,
               !.edits = IF edited THEN Put(@, key, Append(pending, editor.files[loc]))
                         ELSE IF undone
                         THEN Put(@, key, SubSeq(pending, 1, Len(pending) - 1))
                         ELSE @,
               !.failed = IF mutating /\ norm.ok /\ ~after.resp.ok THEN @ \cup {key} ELSE @,
               !.last = [command |-> tool_input.command, path |-> tool_input.path,
                         key |-> key,
                         pushed |-> Len(Get(after.backup_history, key, <<>>))
                                      - Len(Get(editor.backup_history, key, <<>>)),
                         pending |-> pending,
                         made_for |-> IF after.backup \in DOMAIN editor.backups
                                      THEN editor.backups[after.backup].made_for
                                      ELSE <<>>]]
    /\ UNCHANGED <<sessionVars, pol, memory, agent, skills>>

View ==
    \E path \in EditorPaths :
        EditorCall(EditorRequest("view", path, "", "", <<>>, NoLine))

StrReplace ==
    \E path \in EditorPaths, r \in {<<"x", "y">>, <<"c", "x">>, <<"", "y">>} :
        EditorCall(EditorRequest("str_replace", path, r[1], r[2], <<>>, NoLine))

Create ==
    \E path \in EditorPaths :
        EditorCall(EditorRequest("create", path, "", "", <<"c">>, NoLine))

Insert ==
    \E path \in EditorPaths,
       insert_line \in {[type |-> "int", value |-> 0], [type |-> "int", value |-> 5],
                        [type |-> "str", value |-> 1], NoLine} :
        EditorCall(EditorRequest("insert", path, "", "i", <<>>, insert_line))

UndoEdit ==
    \E path \in EditorPaths :
        EditorCall(EditorRequest("undo_edit", path, "", "", <<>>, NoLine))

NextEditor == View \/ StrReplace \/ Create \/ Insert \/ UndoEdit

SpecEditor == InitEditor /\ [][NextEditor]_vars

\* a backup file is removed by something other than the handler (the backups
\* lie beside the files, where the bash tool and the user work): the case that
\* line 356 of undo_edit tests for
BackupRemoved ==
    /\ \E bp \in DOMAIN editor.backups : editor' = [editor EXCEPT !.backups = Del(@, bp)]
    /\ UNCHANGED <<sessionVars, pol, memory, agent, skills>>

NextEditorShared == NextEditor \/ BackupRemoved

\* the text editor in a directory that others work in too
SpecEditorShared == InitEditor /\ [][NextEditorShared]_vars

\* ======================================================== the properties
\* a step in which handle() returns
ReturnStep == pc' = "idle" /\ (pc # "idle" \/ calls' # calls)

\* the last request was a command that passes the denylist, and the shell ran
\* it and echoed its sentinel: it completed within the timeout
CompletedCommand ==
    /\ pc = "idle"
    /\ ~req.restart
    /\ req.command \in Commands \ {CmdRm}
    /\ cur.done

\* what the command itself prints, as the lines of its stdout after
\* sanitize_output
OwnLines(command, X) ==
    CASE command = CmdEcho -> << <<"a">> >>
      [] command = CmdGetX -> IF X = 0 THEN <<>> ELSE << <<"1">> >>
      [] command = CmdPrintf -> << <<"a">> >>
      [] command = CmdEchoProbe -> << <<EXIT_PREFIX, "7">> >>
      [] command = CmdEchoMinus -> << <<EXIT_PREFIX, "-1">> >>
      [] command = CmdSecret -> << <<REDACTED_API_KEY>> >>
      [] OTHER -> <<>>

\* the output text execute_command is to return for the command
OwnOutput(command, X) == IF OwnLines(command, X) = <<>> THEN EmptyText ELSE OwnLines(command, X)

IsSuffix(suf, line) ==
    /\ Len(suf) <= Len(line)
    /\ SubSeq(line, Len(line) - Len(suf) + 1, Len(line)) = suf

C2_NextCallAfterTimeoutSucceeds ==
    (CompletedCommand /\ prev = "timeout"
        /\ req.command \in {CmdEcho, CmdFalse, CmdExport, CmdGetX})
    => /\ resp.kind = "ok"
       /\ resp.exit_code = cur.status
       /\ resp.output = OwnOutput(req.command, cur.X)

\* C3 (as claimed): no handle call leaves the session dead: whenever handle
\* returns, the session's process is alive, except that a request that does not
\* use the session (empty or rejected) leaves a process that was already dead
\* as it is. It holds in Spec and fails in SpecSentinel.
C3_NeverLeftDead ==
    [][ReturnStep =>
          \/ procs'[process'].alive
          \/ resp'.kind \in {"empty", "blocked"} /\ ~procs[process].alive]_vars

C3_Witness ==
    /\ pc = "idle"
    /\ prev \in {"timeout", "fault"}
    /\ resp.kind \in {"timeout", "fault"}
    /\ procs[process].alive
    /\ Len(procs) >= 3

\* C4 (as claimed): for a command that passes the denylist and completes
\* within the timeout, handle returns the command's real exit status.
C4_ExitCodeIsRealStatus ==
    CompletedCommand => resp.exit_code = cur.status

\* C5 (as claimed): for a command that passes the denylist and completes
\* within the timeout, the returned output has every line the command printed
\* and has neither the injected exit-status probe nor the sentinel in it.
C5_OutputHasNoProbeArtifacts ==
    CompletedCommand =>
        /\ \A k \in 1..Len(OwnLines(req.command, cur.X)) :
              \E i \in 1..Len(resp.output) : resp.output[i] = OwnLines(req.command, cur.X)[k]
        /\ \A i \in 1..Len(resp.output) :
              /\ ~IsSuffix(<<EXIT_PREFIX, ToStr(cur.status)>>, resp.output[i])
              /\ ~ContainsEndMarker(resp.output[i])

\* C6: a denylisted command with restart false is answered with exit code 1,
\* empty output and an error, and the session is not touched: nothing written,
\* no process replaced or killed, no reader started, no execute_command call.
C6_RejectedCommandLeavesSession ==
    [][(pc = "idle" /\ calls' = calls + 1 /\ req'.command = CmdRm /\ ~req'.restart)
        => /\ pc' = "idle"
           /\ resp'.exit_code = 1
           /\ resp'.output = EmptyText
           /\ "error" \in resp'.keys
           /\ NonEmptyText(resp'.error)
           /\ UNCHANGED <<process, procs, readers, execCount, writeCount, nmarkers>>]_vars

C6_Witness ==
    /\ pc = "idle"
    /\ req.command = CmdRm
    /\ ~req.restart
    /\ resp.kind = "blocked"
    /\ calls >= 2
    /\ execCount = 1

\* C7 (as claimed): handle never raises, also when the shell cannot be
\* spawned, and a fault on the accepted-command path comes back as
\* {error, output: "", exit_code: -1}.
C7_HandleIsTotal ==
    /\ ~resp.raised
    /\ resp.kind \in {"fault", "handler_fault"} =>
          /\ resp.exit_code = -1
          /\ resp.output = EmptyText
          /\ "error" \in resp.keys

C11_TimeoutKeepsState ==
    [][(/\ pc = "poll" /\ pc' = "idle" /\ resp'.kind = "timeout"
        /\ procs[process].X # 0
        /\ procs[process].X < calls)
        => /\ procs'[process'].alive
           /\ procs'[process'].X = procs[process].X]_vars

\* a step in which handle is called with restart true
RestartStep == pc = "idle" /\ calls' = calls + 1 /\ req'.restart

\* C12 (as claimed): a restart request returns {message: "New session
\* started", output: ""}.
C12_RestartMessageAsClaimed ==
    [][RestartStep =>
          /\ pc' = "idle"
          /\ resp'.keys = {"message", "output"}
          /\ resp'.message = <<"New session started">>
          /\ resp'.output = EmptyText]_vars

\* C12 (amended): a restart request, whatever its command text, kills the
\* process and calls _start_session exactly once, validates and executes
\* nothing, and returns {message: "New bash session started", output: ""};
\* when the spawn fails, its exception leaves handle and no process is added.
C12_RestartIgnoresCommand ==
    [][RestartStep =>
          /\ pc' = "idle"
          /\ ~procs'[process].alive
          /\ log' = <<>>
          /\ UNCHANGED <<readers, execCount, writeCount, nmarkers>>
          /\ \/ /\ resp'.keys = {"message", "output"}
                /\ resp'.message = <<"New bash session started">>
                /\ resp'.output = EmptyText
                /\ Len(procs') = Len(procs) + 1
                /\ process' = Len(procs')
                /\ procs'[process'] = FreshProcess
             \/ /\ resp'.raised
                /\ faultBudget' = faultBudget - 1
                /\ Len(procs') = Len(procs)
                /\ process' = process]_vars

C12_Witness ==
    /\ pc = "idle"
    /\ req = [command |-> CmdRm, restart |-> TRUE]
    /\ resp.kind = "restart"
    /\ prev = "ok"
    /\ process = 2
    /\ procs[process].alive

\* C13: an empty or absent command with restart false is answered with
\* {error: "No command provided", output: "", exit_code: 1} and the session is
\* not touched: nothing validated or logged, nothing written, no process
\* killed or spawned, no reader started.
C13_EmptyCommandLeavesSession ==
    [][(pc = "idle" /\ calls' = calls + 1 /\ req'.command = NoCommand /\ ~req'.restart)
        => /\ pc' = "idle"
           /\ resp'.keys = {"error", "output", "exit_code"}
           /\ resp'.error = << <<"No command provided">> >>
           /\ resp'.output = EmptyText
           /\ resp'.exit_code = 1
           /\ log' = <<>>
           /\ UNCHANGED <<process, procs, readers, execCount, writeCount, nmarkers>>]_vars

C13_Witness ==
    /\ pc = "idle"
    /\ req = [command |-> NoCommand, restart |-> FALSE]
    /\ resp.kind = "empty"
    /\ resp.exit_code = 1
    /\ exits = 1
    /\ ~procs[process].alive
    /\ Len(procs) = 1

\* C14 (as claimed): truncate_output applied to its own result gives the
\* same text again.
C14_TruncateIdempotent ==
    pol.ops = <<"truncate", "truncate">> => pol.text = pol.before

\* the summary line states n
Mentions(line, n) == \E j \in 1..Len(line) : line[j] = ToStr(n)

Sanitized(text) == sanitize_output(text) = text

\* C16 (as claimed): no unsanitized output or error text reaches the response
\* or the log on the accepted-command path: the output and error of every
\* response, what log_command is handed, and every logged error message hold
\* nothing that sanitize_output would redact.
C16_NothingUnsanitized ==
    /\ "output" \in resp.keys => Sanitized(resp.output)
    /\ "error" \in resp.keys => Sanitized(resp.error)
    /\ \A i \in 1..Len(log) :
          /\ log[i].fn = "log_command" => Sanitized(log[i].output) /\ Sanitized(log[i].error)
          /\ log[i].fn = "error" => Sanitized(log[i].text)

\* C17 (as claimed): after sanitize_output nothing of the secret of an
\* assignment or of a long alphanumeric run is left in the text, and a line
\* of other content is still there unchanged.
C17_SanitizeRedactsEverySecret ==
    pol.ops = <<"sanitize">> =>
        /\ \A i \in 1..Len(pol.text) : \A j \in 1..Len(pol.text[i]) :
              pol.text[i][j] \notin pol.secret
        /\ \A i \in 1..Len(pol.input) :
              pol.input[i] = PlainLine => \E k \in 1..Len(pol.text) : pol.text[k] = PlainLine

\* handle has returned a response
Responded == pc = "idle" /\ resp.kind \notin {"none", "raised"}

\* C18 (as claimed): every response has an output and an integer exit_code.
C18_OutputAndExitCodeAlways ==
    Responded => {"output", "exit_code"} \subseteq resp.keys

\* C18 (amended): every response has an output text; every response other
\* than the one to a restart request has an integer exit_code, and the one to
\* a restart request has a message and an output only.
C18_OutputAlwaysExitCodeUnlessRestart ==
    Responded =>
        /\ "output" \in resp.keys
        /\ Len(resp.output) >= 1
        /\ resp.kind # "restart" => "exit_code" \in resp.keys /\ resp.exit_code \in Int
        /\ resp.kind = "restart" => resp.keys = {"message", "output"}

C18_Witness ==
    /\ Responded
    /\ resp.kind = "restart"
    /\ prev = "timeout"
    /\ "exit_code" \notin resp.keys

\* C19 (as claimed): the response has an error field when validation failed,
\* when the command timed out, and when the command ran and exited nonzero or
\* failed otherwise.
C19_ErrorOnEveryFailure ==
    (/\ Responded
     /\ \/ resp.kind \in {"empty", "blocked", "timeout", "fault", "handler_fault"}
        \/ resp.kind = "ok" /\ cur.done /\ cur.status # 0)
    => "error" \in resp.keys

\* C19 (amended): the response has an error field when validation failed,
\* when the command timed out and when a session or handler fault occurred;
\* a command that ran to its sentinel is reported without an error field,
\* whatever its exit status.
C19_ErrorOnFaultsOnly ==
    Responded =>
        /\ resp.kind \in {"empty", "blocked", "timeout", "fault", "handler_fault"}
              => "error" \in resp.keys /\ NonEmptyText(resp.error)
        /\ resp.kind \in {"ok", "restart"} => "error" \notin resp.keys

C19_Witness ==
    /\ Responded
    /\ req.command = CmdFalse
    /\ resp.kind = "ok"
    /\ cur.done
    /\ cur.status = 1
    /\ resp.exit_code = 1
    /\ "error" \notin resp.keys

\* C20 (as claimed): exit_code -1 is returned only for a timeout or a fault,
\* never for a command that ran to its sentinel.
C20_MinusOneOnlyForFaults ==
    (Responded /\ "exit_code" \in resp.keys /\ resp.exit_code = -1)
    => resp.kind \in {"timeout", "fault", "handler_fault"}

\* C21: close() terminates the process and is idempotent: once close() has been
\* called (and nothing respawned since) the session's process is dead, whether it
\* was running or already dead, and applying close() again changes nothing.
C21_CloseIdempotent ==
    closed => /\ ~procs[process].alive
              /\ Kill(procs, process) = procs

\* close() was called on a session whose process had already died on its own.
C21_Witness ==
    /\ closed
    /\ exits = 1
    /\ Len(procs) = 1
    /\ ~procs[process].alive

\* the lines a shell holding X writes for the command and the exit status probe
\* that execute_command sends after it, up to the sentinel
WrittenLines(command, X) ==
    RunShell([FreshProcess EXCEPT
                 !.X = X,
                 !.stdin = << [k |-> "cmd", arg |-> command, call |-> 0],
                              [k |-> "probe", arg |-> <<>>, call |-> 0] >>]).pipe

\* C30 (as claimed): when the caller of _read_with_timeout takes the sentinel
\* from its queue, the lines it has collected are exactly the lines the process
\* wrote for this command since the previous sentinel, in order, none lost,
\* duplicated or taken by another call.
C30_CollectedIsWhatWasWritten ==
    (pc = "poll" /\ queue # <<>> /\ ContainsEndMarker(Head(queue)) /\ cur.done)
    => output_lines = WrittenLines(req.command, cur.X)

\* -------------------------------------------- the conversation loop's turns
InitAgent ==
    /\ InitCommon
    /\ faultBudget = 0
    /\ pol = NoPolicyRun
    /\ editor = NoEditor
    /\ memory = NoMemory
    /\ agent \in {NewCall(who, max_turns) : who \in {"agent", "harness"},
                                            max_turns \in 1..MaxTurns}
    /\ skills = NoSkills

\* the next iteration of `for _ in range(max_turns)` of caller who starts
Iteration(who) ==
    /\ agent.who = who
    /\ agent.pc = "loop"
    /\ agent.turn < agent.max_turns
    /\ UNCHANGED <<sessionVars, pol, editor, memory, skills>>

\* what an iteration leaves behind
Turn(next_pc, new_messages, returns, runs, last) ==
    agent' = [agent EXCEPT
                 !.turn = @ + 1, !.pc = next_pc, !.messages = @ \o new_messages,
                 !.returns = returns, !.handler_runs = @ + runs, !.last = last,
                 !.error_at = IF last = "error" /\ @ = 0 THEN agent.turn + 1 ELSE @]

ErrorMessage == Message("user", <<Block("text", 0, "Error occurred: API Error")>>)

\* ClaudeAgent.call, lines 187-208: messages.create raises; the error goes
\* into the conversation and the loop continues
AgentApiError ==
    /\ Iteration("agent")
    /\ Turn("loop", <<ErrorMessage>>, "nothing", 0, "error")

\* ClaudeAgent.call, lines 211-390: a response with
\* server-side tool use, client-side tool use or both
AgentToolUse ==
    /\ Iteration("agent")
    /\ \E r \in Responses :
          LET response == Received(r, agent.turn + 1)
          IN  /\ has_server_tool_use(response) \/ has_client_tool_use(response)
              /\ Turn("loop", AgentToolMessages(response), "nothing",
                      IF has_client_tool_use(response) THEN HandlerRuns(response) ELSE 0,
                      IF has_client_tool_use(response) THEN "client_tools"
                                                       ELSE "server_tools")

AgentFinalGoesOn ==
    /\ Iteration("agent")
    /\ \E r \in Responses :
          LET response == Received(r, agent.turn + 1)
          IN  /\ ~has_server_tool_use(response) /\ ~has_client_tool_use(response)
              /\ Turn("loop", <<Message("assistant", response.content)>>, "nothing", 0,
                      "final")

\* ClaudeAgent.call, lines 392-413: a response that uses no tool
AgentFinal ==
    /\ Iteration("agent")
    /\ \E r \in Responses :
          LET response == Received(r, agent.turn + 1)
          IN  /\ ~has_server_tool_use(response) /\ ~has_client_tool_use(response)
              /\ Turn("returned", <<Message("assistant", response.content)>>, "messages", 0,
                      "final")

\* ClaudeAgent.call, lines 415-416: the for loop is over and the function ends
\* without a return statement
AgentExhausted ==
    /\ agent.who = "agent"
    /\ agent.pc = "loop"
    /\ agent.turn = agent.max_turns
    /\ agent' = [agent EXCEPT !.pc = "returned", !.returns = "None"]
    /\ UNCHANGED <<sessionVars, pol, editor, memory, skills>>

\* ClaudeHarness.call, lines 85-89: messages.create raises, nothing catches it
HarnessApiError ==
    /\ Iteration("harness")
    /\ Turn("raised", <<>>, "exception", 0, "error")

\* ClaudeHarness.call, lines 91-129
HarnessToolUse ==
    /\ Iteration("harness")
    /\ \E r \in Responses :
          LET response == Received(r, agent.turn + 1)
          IN  /\ response.stop_reason = "tool_use"
              /\ Turn("loop", HarnessToolMessages(response), "nothing",
                      HandlerRuns(response), "client_tools")

\* ClaudeHarness.call, lines 131-140
HarnessFinal ==
    /\ Iteration("harness")
    /\ \E r \in Responses :
          LET response == Received(r, agent.turn + 1)
          IN  /\ response.stop_reason # "tool_use"
              /\ Turn("returned", <<>>, "None", 0,
                      IF has_server_tool_use(response) THEN "server_tools" ELSE "final")

\* ClaudeHarness.call, lines 142-143
HarnessExhausted ==
    /\ agent.who = "harness"
    /\ agent.pc = "loop"
    /\ agent.turn = agent.max_turns
    /\ agent' = [agent EXCEPT !.pc = "returned", !.returns = "None"]
    /\ UNCHANGED <<sessionVars, pol, editor, memory, skills>>

NextAgent ==
    \/ AgentApiError
    \/ AgentToolUse
    \/ AgentFinal
    \/ AgentExhausted
    \/ HarnessApiError
    \/ HarnessToolUse
    \/ HarnessFinal
    \/ HarnessExhausted

\* the API call and the handlers return: an iteration that has started ends
SpecAgent == InitAgent /\ [][NextAgent]_vars /\ WF_vars(NextAgent)

\* ------------------------------------------------------- loading the skills
InitSkills ==
    /\ InitCommon
    /\ faultBudget = 0
    /\ pol = NoPolicyRun
    /\ editor = NoEditor
    /\ memory = NoMemory
    /\ agent = NoAgent
    /\ skills \in {NewLoader(dir) :
                      dir \in {[kind |-> "missing", items |-> <<>>],
                               [kind |-> "file", items |-> <<>>]}
                              \cup {[kind |-> "dir", items |-> l] : l \in ItemLists(MaxItems)}}

\* loader.load_skills()
LoadSkills ==
    /\ skills.loads < 1
    /\ skills' = [skills EXCEPT !.skills = load_skills(skills.dir), !.loads = @ + 1]
    /\ UNCHANGED <<sessionVars, pol, editor, memory, agent>>

SpecSkills == InitSkills /\ [][LoadSkills]_vars

\* ------------------------------------------------- the memory tool's calls
\* paths as strings of "/" and names: files under the virtual root or without
\* it, the root itself, and paths that leave ./memories through "..", through a
\* second "/" or through the symbolic link
MemoryPaths ==
    {<<"/", "memories", "/", "a">>,
     <<"a">>,
     <<"/", "memories">>,
     <<"/", "memories", "/", "d", "/", "b">>,
     <<"/", "out", "/", "s">>,
     <<"/", "memories", "/", "..", "/", "out", "/", "s">>,
     <<"/", "memories", "/", "/", "out", "/", "s">>,
     <<"/", "memories", "/", "link", "/", "s">>}

InitMemory ==
    /\ InitCommon
    /\ faultBudget = 0
    /\ pol = NoPolicyRun
    /\ editor = NoEditor
    /\ memory = NewMemory
    /\ agent = NoAgent
    /\ skills = NoSkills

\* one handle() call
MemoryCall(command, path, new_path) ==
    /\ memory.ops < MaxMemoryOps
    /\ memory' = [MemoryHandle(memory,
                               [command |-> command, path |-> path, new_path |-> new_path,
                                file_text |-> <<"c">>, old_str |-> "x", new_str |-> "y",
                                line_number |-> 1, text |-> "i"])
                     EXCEPT !.ops = @ + 1,
                            !.last = [command |-> command, path |-> path,
                                      new_path |-> new_path],
                            !.before = [files |-> memory.files, dirs |-> memory.dirs,
                                        link |-> memory.link]]
    /\ UNCHANGED <<sessionVars, pol, editor, agent, skills>>

MemoryView == \E path \in MemoryPaths : MemoryCall("view", path, <<>>)

MemoryCreate == \E path \in MemoryPaths : MemoryCall("create", path, <<>>)

MemoryStrReplace == \E path \in MemoryPaths : MemoryCall("str_replace", path, <<>>)

MemoryInsert == \E path \in MemoryPaths : MemoryCall("insert", path, <<>>)

MemoryDelete == \E path \in MemoryPaths : MemoryCall("delete", path, <<>>)

MemoryRename == \E path, new_path \in MemoryPaths : MemoryCall("rename", path, new_path)

NextMemory ==
    \/ MemoryView
    \/ MemoryCreate
    \/ MemoryStrReplace
    \/ MemoryInsert
    \/ MemoryDelete
    \/ MemoryRename

SpecMemory == InitMemory /\ [][NextMemory]_vars

\* the request's path, as the operating system resolves it, is outside base_path
Escapes(path) ==
    ~IsRelativeTo(Resolve(<<>>, IF path.abs THEN path.parts ELSE base_path \o path.parts),
                  Resolve(<<>>, base_path))

\* C22: on a path whose calls were successful edits and undos only, an
\* undo_edit succeeds exactly when an edit of the path is not yet undone, it
\* brings back the content the file had just before the most recent such edit,
\* and the backup it restores was made for this path.
C22_BackupsFormStack ==
    LET l == editor.last
    IN  (l.command = "undo_edit" /\ l.key # <<>> /\ l.key \notin editor.failed)
        => /\ editor.resp.ok <=> l.pending # <<>>
           /\ editor.resp.ok =>
                 /\ editor.files[Resolve(<<>>, l.key)] = l.pending[Len(l.pending)]
                 /\ l.made_for = l.key

\* two edits of a path whose first backup name was taken by a file left
\* behind, then an undo that restored the second backup
C22_Witness ==
    /\ editor.last.command = "undo_edit"
    /\ editor.resp.ok
    /\ editor.last.key \notin editor.failed
    /\ Len(editor.last.pending) = 2
    /\ editor.backup.n = 2

\* C23 (as claimed): every mutating edit that succeeds pushes exactly one
\* backup onto its path's stack.
C23_EveryEditPushesBackup ==
    (editor.last.command \in {"create", "str_replace", "insert"} /\ editor.resp.ok)
    => editor.last.pushed = 1

\* C28: a call whose path resolves outside base_path returns an error, hands
\* nothing to the file system and returns no content; the file outside is as
\* it was, and no file or backup exists outside that was not there before.
C28_EscapingPathTouchesNothing ==
    /\ (editor.last.command # "none" /\ Escapes(editor.last.path))
       => /\ ~editor.resp.ok
          /\ editor.touched = {}
          /\ editor.content = <<>>
          /\ editor.backup = NoBackup
    /\ OutsideFile \in DOMAIN editor.files
    /\ editor.files[OutsideFile] = Secret
    /\ \A loc \in DOMAIN editor.files : loc = OutsideFile \/ IsRelativeTo(loc, base_path)
    /\ \A bp \in DOMAIN editor.backups : IsRelativeTo(bp.dir, base_path)

\* a create through the symbolic link was refused after an edit inside
C28_Witness ==
    /\ editor.last.command = "create"
    /\ editor.last.path = [abs |-> FALSE, parts |-> <<"link", "s">>]
    /\ ~editor.resp.ok
    /\ editor.ops = 2
    /\ DOMAIN editor.backups # {}

\* C24 (as claimed): whenever ClaudeAgent.call returns, it returns the list of
\* conversation messages, and the list is not empty.
C24_AlwaysReturnsMessages ==
    (agent.who = "agent" /\ agent.pc = "returned")
    => agent.returns = "messages" /\ Len(agent.messages) > 0

\* C25: both loops end. Neither makes more than max_turns API calls or runs a
\* handler outside an iteration (at most two tool_use blocks per response);
\* the first response that uses no tool ends the call, and a call returns only
\* on a response that asks the caller for no tool or when the budget is used
\* up.
C25_CallsTerminate ==
    /\ [](/\ agent.turn <= agent.max_turns
          /\ agent.handler_runs <= 2 * agent.turn
          /\ agent.pc = "loop" => agent.last # "final"
          /\ agent.pc = "returned" =>
                \/ agent.last \in {"final", "server_tools"}
                \/ agent.turn = agent.max_turns)
    /\ <>(agent.pc # "loop")

\* the budget ran out on a response that asked for two tools
C25_Witness ==
    /\ agent.pc = "returned"
    /\ agent.max_turns = 3
    /\ agent.turn = 3
    /\ agent.last = "client_tools"
    /\ agent.handler_runs >= 3

\* C26 (as claimed): in ClaudeAgent.call an API error ends the loop: the error
\* is added to the conversation and the call that raised is the last API call.
C26_ApiErrorExitsLoop ==
    (agent.who = "agent" /\ agent.error_at > 0)
    => /\ agent.turn = agent.error_at
       /\ \E i \in 1..Len(agent.messages) : agent.messages[i] = ErrorMessage

\* the SKILL.md of the item has a frontmatter with a name and a description
HasNameAndDescription(item) ==
    /\ item.is_dir
    /\ item.has_skill_md
    /\ AnyFrontmatter(item.skill_md)[1]
    /\ MetadataValue(AnyFrontmatter(item.skill_md)[2], "name") # ""
    /\ MetadataValue(AnyFrontmatter(item.skill_md)[2], "description") # ""

\* C27 (as claimed): load_skills returns exactly one entry, with name,
\* description and path, for each subdirectory whose SKILL.md has a frontmatter
\* with both fields, and nothing else; a skills path that is missing or not a
\* directory gives the empty list.
C27_LoadsExactlyTheValidSkills ==
    skills.loads > 0 =>
       /\ skills.dir.kind # "dir" => skills.skills = <<>>
       /\ \A i \in 1..Len(skills.dir.items) :
             Cardinality({k \in 1..Len(skills.skills) : skills.skills[k].path = i})
                = IF HasNameAndDescription(skills.dir.items[i]) THEN 1 ELSE 0
       /\ \A k \in 1..Len(skills.skills) :
             /\ skills.skills[k].path \in 1..Len(skills.dir.items)
             /\ skills.skills[k].name = "n"
             /\ skills.skills[k].description = "d"

\* the place the memory tool's path stood for when the call was made is
\* outside ./memories
EscapesMemories(path) ==
    ~IsRelativeTo(Resolve(<<>>, MemoryNormalizePath(memory.before, path).full),
           Resolve(<<>>, MemoriesPath))

\* C29: every location a memory tool command hands to the file system is in
\* ./memories, for the path and for the destination of a rename; a call whose
\* path or rename destination escapes returns an error and leaves every file
\* and directory as it was; nothing outside ./memories ever changes.
C29_MemoryStaysInside ==
    /\ \A loc \in memory.touched : IsRelativeTo(loc, MemoriesPath)
    /\ (memory.last.command # "none"
          /\ (EscapesMemories(memory.last.path)
                \/ (memory.last.command = "rename" /\ EscapesMemories(memory.last.new_path))))
       => /\ ~memory.resp.ok
          /\ memory.content = <<>>
          /\ memory.files = memory.before.files
          /\ memory.dirs = memory.before.dirs
          /\ memory.link = memory.before.link
    /\ \A loc \in DOMAIN memory.files :
          IsRelativeTo(loc, MemoriesPath) \/ (loc = OutsideFile /\ memory.files[loc] = Secret)
    /\ OutsideFile \in DOMAIN memory.files
    /\ {d \in memory.dirs : ~IsRelativeTo(d, MemoriesPath)} = {<<>>, <<"out">>}

\* a rename of an existing file to a destination behind the symbolic link
\* was refused
C29_Witness ==
    /\ memory.last.command = "rename"
    /\ memory.last.path = <<"a">>
    /\ memory.last.new_path = <<"/", "memories", "/", "link", "/", "s">>
    /\ <<"memories", "a">> \in DOMAIN memory.files
    /\ ~memory.resp.ok

\* C31 (as claimed): while a call polls its queue, every reader thread that
\* reads the stdout of the session's current process is the thread of that
\* call and feeds the queue the call consumes; no thread started for an earlier
\* call is reading there.
C31_OneReaderFeedsCaller ==
    \A r \in 1..Len(readers) :
        (pc = "poll" /\ readers[r].pc = "read" /\ readers[r].at = process) => FeedsCaller(r)

\* C32 (as claimed): every call draws a sentinel of its own, and the line on
\* which its collection ends successfully is the line that carries that
\* sentinel: no other line the command printed and no line with the sentinel of
\* another call ends it.
C32_EndsOnOwnSentinelOnly ==
    (pc = "poll" /\ queue # <<>> /\ ContainsEndMarker(Head(queue)))
    => Head(queue) = <<END_MARKER, Uuid(nmarkers)>>

\* C33 (as claimed): a reader thread reads the stdout of the process it was
\* started for and of no other, so that it ends when that stream closes: a
\* thread of a replaced process is never in readline on the stdout of a newer
\* process.
C33_ReaderStaysWithItsProcess ==
    \A r \in 1..Len(readers) : readers[r].pc = "read" => readers[r].at = readers[r].of

ToolUses(message) == SelectSeq(message.content, IsToolUse)

\* message i of the conversation is an assistant message that uses client tools
UsesTools(i) ==
    /\ agent.messages[i].role = "assistant"
    /\ ToolUses(agent.messages[i]) # <<>>

\* message i is in the conversation once
AppendedOnce(i) ==
    \A j \in 1..Len(agent.messages) : agent.messages[j] = agent.messages[i] => j = i

\* C36: in ClaudeAgent.call, an assistant message with tool_use blocks is in
\* the conversation once and the message after it is a user message with
\* exactly one tool_result per tool_use block, same tool_use_id, same order,
\* the result of a tool without a handler being the error.
C36_AgentPairsToolResults ==
    agent.who = "agent" =>
        \A i \in 1..Len(agent.messages) :
            UsesTools(i) =>
                /\ AppendedOnce(i)
                /\ i < Len(agent.messages)
                /\ LET uses == ToolUses(agent.messages[i])
                       next == agent.messages[i + 1]
                   IN  /\ next.role = "user"
                       /\ Len(next.content) = Len(uses)
                       /\ \A k \in 1..Len(uses) :
                              /\ next.content[k].type = "tool_result"
                              /\ next.content[k].id = uses[k].id
                              /\ uses[k].name \notin tool_handlers
                                    => next.content[k].name = "No handler registered for tool"

\* the first assistant message after message i, or the end of the conversation
NextAssistant(i) ==
    LET later == {j \in (i + 1)..Len(agent.messages) : agent.messages[j].role = "assistant"}
    IN  IF later = {} THEN Len(agent.messages) + 1
        ELSE CHOOSE j \in later : \A k \in later : j <= k

\* C37: in ClaudeHarness.call, an assistant message with tool_use blocks is
\* in the conversation once and each of its tool_use blocks has its
\* tool_result in a user message before the next assistant message.
C37_HarnessPairsToolResults ==
    agent.who = "harness" =>
        \A i \in 1..Len(agent.messages) :
            UsesTools(i) =>
                /\ AppendedOnce(i)
                /\ LET uses == ToolUses(agent.messages[i])
                   IN  \A k \in 1..Len(uses) :
                          \E j \in (i + 1)..(NextAssistant(i) - 1) :
                             /\ agent.messages[j].role = "user"
                             /\ \E b \in 1..Len(agent.messages[j].content) :
                                    /\ agent.messages[j].content[b].type = "tool_result"
                                    /\ agent.messages[j].content[b].id = uses[k].id

\* C38: a call of the text editor that returns an error leaves the content of
\* every file and the backup history of every path as they were.
C38_ErrorChangesNothing ==
    [][(editor'.ops = editor.ops + 1 /\ ~editor'.resp.ok)
          => /\ editor'.files = editor.files
             /\ editor'.backup_history = editor.backup_history]_vars

\* C39: the ./memories directory that the constructor made exists after every
\* sequence of memory tool commands.
C39_BaseDirectoryStays == MemoriesPath \in memory.dirs

====
